---------------------------- MODULE Spec2Model ----------------------------
(***************************************************************************)
(* A state-machine model of winter's runtime core: the per-sandbox type    *)
(* interner (type.hpp / type.cpp), the linear memory (memory.hpp /         *)
(* memory.cpp) and the module linker (func.hpp / func.cpp, module.hpp /    *)
(* module.cpp).                                                            *)
(*                                                                         *)
(* Pointers are natural numbers, 0 is nullptr.  size_t is SizeBits wide    *)
(* and wptr_t is WptrBits wide (64 and 32 in the code); all size_t         *)
(* arithmetic is taken modulo 2^SizeBits.  The page shift is the code's.   *)
(***************************************************************************)
EXTENDS Integers, Sequences, FiniteSets, TLC

VARIABLES
    sig_heap,   \* the FuncSig objects allocated by `new FuncSig`, by address
    _sigs,      \* TypeTable::_sigs: the owning pointers, in push_back order
    sig_calls,  \* every sig() call made so far with the reference it returned
    mstatus,    \* where the memory's process is: "none", "live", "aborted", "bad_alloc", "segv"
    mem,        \* the Memory object: MemoryInternal, _initial_pages, backing region
    ret,        \* the last call on the memory: op, how it ended (st: "ret" when
                \* it returned, "abort", "segv"; for the constructor "ok",
                \* "fail", "abort") and the value returned (val)
    stored,     \* the values written by store<T> that no later store has
                \* overlapped: records [addr, buf], buf the object's bytes
    unlinked_heap,  \* the UnlinkedFunc objects, by address
    linked_heap,    \* the LinkedFunc objects, by address
    mem_heap,       \* the Memory objects held through shared_ptr, by address
    mod,            \* the Module under instantiation (mod.built: whether it exists)
    ienv,           \* ImportEnvironment::_modules: module name -> ImportModule
    instances,      \* the ModuleInstance objects returned by instantiate, by address
    link_ret,       \* the last linker call: op, how it ended (st: "ok",
                    \* "LinkError", "bad_alloc", "abort") and what it produced
    cursor          \* the InstructionCursor: _stream (the bytes of the stream
                    \* it points to) and _cursor (as an offset from the
                    \* stream's first byte); built: whether it exists

type_vars == <<sig_heap, _sigs, sig_calls>>
mem_vars  == <<mstatus, mem, ret, stored>>
link_vars == <<unlinked_heap, linked_heap, mem_heap, mod, ienv, instances, link_ret,
               cursor>>
vars      == <<sig_heap, _sigs, sig_calls, mstatus, mem, ret, stored,
               unlinked_heap, linked_heap, mem_heap, mod, ienv, instances, link_ret,
               cursor>>

(***************************************************************************)
(* Bounds of the model.                                                    *)
(***************************************************************************)
\* The number of signatures a TypeTable may hold before sig() stops adding.
MaxSigs == 3
\* Width of size_t in bits (the code's hosts have 64).
SizeBits == 18
\* Width of wptr_t in bits (the code has uint32_t).
WptrBits == 17
\* Page counts 0..MaxPages are tried as initial_pages, max_pages and grow deltas.
MaxPages == 2
\* functions and memories a host creates for linking
MaxObjects == 2
\* instances a host makes
MaxInstances == 2
\* the longest instruction stream
MaxStream == 3
\* the add_* calls a host makes on one Module
MaxSlots == 3

RECURSIVE Pow2(_)
Pow2(n) == IF n = 0 THEN 1 ELSE 2 * Pow2(n - 1)

(***************************************************************************)
(* type.hpp: value types and function signatures.                          *)
(***************************************************************************)
PrimitiveValueType == {"I32", "I64", "F32", "F64", "FuncRef"}

\* ValueType::i32(), ValueType::func_ref(sig)
i32 == [type |-> "I32", extra |-> 0]
f32 == [type |-> "F32", extra |-> 0]
func_ref(sig) == [type |-> "FuncRef", extra |-> sig]

\* ValueType::operator==
ValueTypeEq(a, b) == a.type = b.type /\ a.extra = b.extra

\* std::vector<ValueType>::operator== : same length, element-wise ValueType::operator==
VecEq(a, b) ==
    /\ Len(a) = Len(b)
    /\ \A i \in 1..Len(a) : ValueTypeEq(a[i], b[i])

FuncSig(return_types, param_types) ==
    [return_types |-> return_types, param_types |-> param_types]

\* The predicate of the find_if in TypeTable::sig
SigMatchesReturnsOnly(s, return_types, param_types) ==
    VecEq(s.return_types, return_types)

SigMatches(s, return_types, param_types) ==
    VecEq(s.return_types, return_types) /\ VecEq(s.param_types, param_types)

\* std::find_if over _sigs: the position of the first match, 0 for end()
FindSig(return_types, param_types) ==
    LET hits == {i \in 1..Len(_sigs) :
                    SigMatches(sig_heap[_sigs[i]], return_types, param_types)}
    IN IF hits = {} THEN 0 ELSE CHOOSE i \in hits : \A j \in hits : i <= j

\* The type sequences handed to sig(): they differ in length, in the
\* primitive tag, and in the extra pointer alone.
TypeSeqs == { <<>>, <<i32>>, <<i32, i32>>, <<func_ref(0)>>, <<func_ref(1)>> }

\* TypeTable::sig(return_types, param_types)
Sig(return_types, param_types) ==
    LET it == FindSig(return_types, param_types) IN
    /\ it # 0 \/ Len(_sigs) < MaxSigs
    /\ IF it # 0
       THEN /\ sig_calls' = sig_calls \cup
                    {[return_types |-> return_types, param_types |-> param_types,
                      ref |-> _sigs[it]]}
            /\ UNCHANGED <<sig_heap, _sigs>>
       ELSE LET sig_ref == Len(sig_heap) + 1 IN
            /\ sig_heap' = Append(sig_heap, FuncSig(return_types, param_types))
            /\ _sigs' = Append(_sigs, sig_ref)
            /\ sig_calls' = sig_calls \cup
                    {[return_types |-> return_types, param_types |-> param_types,
                      ref |-> sig_ref]}
    /\ UNCHANGED mem_vars
    /\ UNCHANGED link_vars

(***************************************************************************)
(* memory.hpp: constants and size_t arithmetic.                            *)
(***************************************************************************)
WASM_PAGE_SHIFT == 16
WASM_PAGE_SIZE == Pow2(WASM_PAGE_SHIFT)
MEMORY_FLAG_SHARED == 1

SIZE_MOD == Pow2(SizeBits)
SIZE_MAX == SIZE_MOD - 1
WPTR_MAX == Pow2(WptrBits) - 1

\* static_cast<size_t>(-1)
WASM_UNLIMITED_PAGES == SIZE_MAX
WASM_ALLOCATE_FAILUREZero == SIZE_MAX - SIZE_MAX
WASM_ALLOCATE_FAILURE == SIZE_MAX

\* The smallest page count whose size in bytes does not fit in size_t.
PageLimit == Pow2(SizeBits - WASM_PAGE_SHIFT)

\* x << WASM_PAGE_SHIFT in size_t: the bits shifted out are lost.  (Written
\* with the reduction first; it equals (x * 2^16) % 2^SizeBits.)
ShiftLeftPage(x) == (x % PageLimit) * WASM_PAGE_SIZE
\* x >> WASM_PAGE_SHIFT
ShiftRightPage(x) == x \div WASM_PAGE_SIZE
\* a + b in size_t
AddSize(a, b) == (a + b) % SIZE_MOD

(***************************************************************************)
(* A region of bytes is a function from the offsets that hold a non-zero   *)
(* byte to that byte; every other offset holds 0.                          *)
(***************************************************************************)
ZeroRegion == [a \in {} |-> 0]
Byte(r, a) == IF a \in DOMAIN r THEN r[a] ELSE 0

\* The i-th byte of a caller's buffer (a sequence); past its end, none.
BufByte(buf, i) == IF i \in 1..Len(buf) THEN buf[i] ELSE 0

\* std::memcpy(region + off, buf, n)
MemcpyIn(r, off, buf, n) ==
    LET upd == off..(off + n - 1)
        D == (DOMAIN r \ upd) \cup {a \in upd : BufByte(buf, a - off + 1) # 0}
    IN [a \in D |-> IF a \in upd THEN BufByte(buf, a - off + 1) ELSE r[a]]

\* std::memcpy(buf, region + off, n)
MemcpyOut(buf, r, off, n) ==
    [i \in 1..Len(buf) |-> IF i <= n THEN Byte(r, off + i - 1) ELSE buf[i]]

\* std::memset(region + off, 0, n)
MemsetZero(r, off, n) ==
    [a \in {x \in DOMAIN r : x < off \/ x >= off + n} |-> r[a]]

(***************************************************************************)
(* memory.hpp: MemoryInternal and Memory.                                  *)
(***************************************************************************)
\* MemoryInternal's member initialisers plus Memory::_initial_pages; region
\* is what the allocation at `start` holds.
MemoryInternal(initial_pages) ==
    [ flags |-> 0, start |-> 0, size |-> 0,
      current_capacity_pages |-> 0, max_capacity_pages |-> 0,
      _initial_pages |-> initial_pages, region |-> ZeroRegion ]

NoMemory == MemoryInternal(0)

AbstractMemory(is_import, is_shared, initial_pages, max_pages) ==
    [ is_import |-> is_import, is_shared |-> is_shared,
      initial_pages |-> initial_pages, max_pages |-> max_pages ]

size(m) == m.size
size_pages(m) == ShiftRightPage(size(m))
initial_size_pages(m) == m._initial_pages
current_capacity_pages(m) == m.current_capacity_pages
max_capacity_pages(m) == m.max_capacity_pages
is_at_max_capacity(m) == current_capacity_pages(m) = max_capacity_pages(m)
is_shared(m) == (m.flags \div MEMORY_FLAG_SHARED) % 2 = 1

\* flags |= MEMORY_FLAG_SHARED
SetShared(m) == IF is_shared(m) THEN m ELSE [m EXCEPT !.flags = @ + MEMORY_FLAG_SHARED]

(***************************************************************************)
(* The host allocator.  A request may fail; a successful realloc of a live *)
(* block may move it; the bytes past the old block are indeterminate       *)
(* (junk is the byte found at the first of them).                          *)
(***************************************************************************)
AllocInputs ==
    { [ok |-> FALSE, moved |-> FALSE, junk |-> 0],
      [ok |-> TRUE,  moved |-> FALSE, junk |-> 1],
      [ok |-> TRUE,  moved |-> TRUE,  junk |-> 0] }

\* std::realloc(start, new_size): the address returned
ReallocStart(start, alloc) ==
    IF start = 0 THEN 1 ELSE IF alloc.moved THEN start + 1 ELSE start

\* std::realloc(start, new_size): the block's bytes; old contents kept
ReallocRegion(r, old_size, alloc) ==
    IF alloc.junk = 0 THEN r
    ELSE [a \in DOMAIN r \cup {old_size} |-> IF a = old_size THEN alloc.junk ELSE r[a]]

(***************************************************************************)
(* memory.cpp.  A call yields [st, m]: st is "ok" (true), "fail" (false)   *)
(* or "abort" (a WASSERT fired), m the object afterwards.                  *)
(***************************************************************************)
Outcome(st, m) == [st |-> st, m |-> m]

\* Memory::alloc_exactly, the non-mmap branch (under WINTER_USE_MMAP the
\* kernel hands out zero pages and there is no memset).
alloc_exactlyNoOverflowCheck(m, num_pages, alloc) ==
    IF \/ is_shared(m)
       \/ ~(num_pages >= m.current_capacity_pages)
       \/ ~(num_pages <= m.max_capacity_pages)
    THEN Outcome("abort", m)
    ELSE IF num_pages # m.current_capacity_pages /\ num_pages # 0
    THEN LET new_size == ShiftLeftPage(num_pages) IN
         IF ~alloc.ok THEN Outcome("fail", m)
         ELSE LET old_bytes == ShiftLeftPage(m.current_capacity_pages)
                  tail == ShiftLeftPage(num_pages - m.current_capacity_pages)
              IN Outcome("ok",
                    [m EXCEPT
                       !.start = ReallocStart(m.start, alloc),
                       !.region = MemsetZero(ReallocRegion(m.region, old_bytes, alloc),
                                             old_bytes, tail),
                       !.current_capacity_pages = ShiftRightPage(new_size)])
    ELSE Outcome("ok", m)

alloc_exactly(m, num_pages, alloc) ==
    IF \/ is_shared(m)
       \/ ~(num_pages >= m.current_capacity_pages)
       \/ ~(num_pages <= m.max_capacity_pages)
    THEN Outcome("abort", m)
    ELSE IF num_pages # m.current_capacity_pages /\ num_pages # 0
    THEN LET new_size == ShiftLeftPage(num_pages) IN
         IF ShiftRightPage(new_size) # num_pages THEN Outcome("fail", m)
         ELSE IF ~alloc.ok THEN Outcome("fail", m)
         ELSE LET old_bytes == ShiftLeftPage(m.current_capacity_pages)
                  tail == ShiftLeftPage(num_pages - m.current_capacity_pages)
              IN Outcome("ok",
                    [m EXCEPT
                       !.start = ReallocStart(m.start, alloc),
                       !.region = MemsetZero(ReallocRegion(m.region, old_bytes, alloc),
                                             old_bytes, tail),
                       !.current_capacity_pages = ShiftRightPage(new_size)])
    ELSE Outcome("ok", m)

\* Memory::alloc_at_least
alloc_at_least(m, num_pages, alloc) ==
    IF num_pages <= m.current_capacity_pages THEN Outcome("ok", m)
    ELSE IF num_pages > m.max_capacity_pages THEN Outcome("fail", m)
    ELSE alloc_exactly(m, num_pages, alloc)

\* Memory::Memory(const AbstractMemory&): "fail" is the std::bad_alloc thrown
MemoryCtorAllocInitial(abstract, alloc) ==
    LET m0 == MemoryInternal(abstract.initial_pages) IN
    IF abstract.is_import THEN Outcome("abort", m0)
    ELSE IF ~(~abstract.is_shared \/ abstract.max_pages # WASM_UNLIMITED_PAGES)
    THEN Outcome("abort", m0)
    ELSE
      LET m1 == [m0 EXCEPT !.max_capacity_pages = abstract.max_pages]
          a  == alloc_at_least(m1, abstract.initial_pages, alloc)
      IN IF a.st # "ok" THEN a
         ELSE LET m2 == IF abstract.is_shared THEN SetShared(a.m) ELSE a.m
              IN Outcome("ok", [m2 EXCEPT !.size = ShiftLeftPage(abstract.initial_pages)])

MemoryCtor(abstract, alloc) ==
    LET m0 == MemoryInternal(abstract.initial_pages) IN
    IF abstract.is_import THEN Outcome("abort", m0)
    ELSE IF ~(~abstract.is_shared \/ abstract.max_pages # WASM_UNLIMITED_PAGES)
    THEN Outcome("abort", m0)
    ELSE
      LET m1 == [m0 EXCEPT !.max_capacity_pages = abstract.max_pages]
          a  == IF abstract.max_pages # WASM_UNLIMITED_PAGES
                THEN alloc_exactly(m1, abstract.max_pages, alloc)
                ELSE alloc_at_least(m1, abstract.initial_pages, alloc)
      IN IF a.st # "ok" THEN a
         ELSE LET m2 == IF abstract.is_shared THEN SetShared(a.m) ELSE a.m
              IN Outcome("ok", [m2 EXCEPT !.size = ShiftLeftPage(abstract.initial_pages)])

\* memory.cpp:99, the test that refuses a growth
GrowRefusedAtMax(m, old_size_pages, new_size_pages) ==
    new_size_pages < old_size_pages \/ new_size_pages >= max_capacity_pages(m)

GrowRefused(m, old_size_pages, new_size_pages) ==
    new_size_pages < old_size_pages \/ new_size_pages > max_capacity_pages(m)

\* memory.cpp:107, _data.size = new_size_pages.get() << WASM_PAGE_SHIFT
GrowCommitDelta(m, new_pages, new_size_pages) ==
    [m EXCEPT !.size = ShiftLeftPage(new_pages)]

GrowCommit(m, new_pages, new_size_pages) ==
    [m EXCEPT !.size = ShiftLeftPage(new_size_pages)]

\* Memory::grow, the else branch (memory.cpp:96-109): [st, val, m] with st
\* "ret" (val is returned) or "abort"
grow_unsharedCommitFirst(m, new_pages, alloc) ==
    LET old_size_pages == size_pages(m)
        new_size_pages == AddSize(old_size_pages, new_pages)
        m1 == GrowCommit(m, new_pages, new_size_pages)
    IN
    IF GrowRefused(m, old_size_pages, new_size_pages)
    THEN [st |-> "ret", val |-> WASM_ALLOCATE_FAILURE, m |-> m]
    ELSE
      LET a == IF new_size_pages > current_capacity_pages(m1)
               THEN alloc_at_least(m1, new_size_pages, alloc)
               ELSE Outcome("ok", m1)
      IN IF a.st = "abort" THEN [st |-> "abort", val |-> 0, m |-> a.m]
         ELSE IF a.st = "fail"
         THEN [st |-> "ret", val |-> WASM_ALLOCATE_FAILURE, m |-> a.m]
         ELSE [st |-> "ret", val |-> old_size_pages, m |-> a.m]

grow_unshared(m, new_pages, alloc) ==
    LET old_size_pages == size_pages(m)
        new_size_pages == AddSize(old_size_pages, new_pages)
    IN
    IF GrowRefused(m, old_size_pages, new_size_pages)
    THEN [st |-> "ret", val |-> WASM_ALLOCATE_FAILURE, m |-> m]
    ELSE
      LET a == IF new_size_pages > current_capacity_pages(m)
               THEN alloc_at_least(m, new_size_pages, alloc)
               ELSE Outcome("ok", m)
      IN IF a.st = "abort" THEN [st |-> "abort", val |-> 0, m |-> a.m]
         ELSE IF a.st = "fail"
         THEN [st |-> "ret", val |-> WASM_ALLOCATE_FAILURE, m |-> a.m]
         ELSE [st |-> "ret", val |-> old_size_pages,
               m |-> GrowCommit(a.m, new_pages, new_size_pages)]

\* Memory::grow
growSharedToo(m, new_pages, alloc) ==
    IF new_pages = 0 THEN [st |-> "ret", val |-> size_pages(m), m |-> m]
    ELSE grow_unshared(m, new_pages, alloc)

growZeroUnhandled(m, new_pages, alloc) ==
    IF is_shared(m) THEN [st |-> "abort", val |-> 0, m |-> m]
    ELSE grow_unshared(m, new_pages, alloc)

grow(m, new_pages, alloc) ==
    LET old_size_pages == size_pages(m) IN
    IF new_pages = 0 THEN [st |-> "ret", val |-> old_size_pages, m |-> m]
    ELSE IF is_shared(m) THEN [st |-> "abort", val |-> 0, m |-> m]
    ELSE grow_unshared(m, new_pages, alloc)

\* Memory::is_valid_address(wptr_t addr, size_t size)
is_valid_addressNoWrapCheck(m, addr, sz) ==
    LET addr_s == addr IN
    AddSize(addr_s, sz) <= size(m)

is_valid_addressEndOnly(m, addr, sz) ==
    LET addr_s == addr IN
    AddSize(addr_s, sz) >= addr_s /\ AddSize(addr_s, sz) = size(m)

is_valid_address(m, addr, sz) ==
    LET addr_s == addr IN
    AddSize(addr_s, sz) >= addr_s /\ AddSize(addr_s, sz) <= size(m)

\* Whether the sz bytes at start + addr lie inside the block the allocator
\* handed out.  A memcpy of bytes outside it is undefined behaviour.
InBacking(m, addr, sz) ==
    sz = 0 \/ (m.start # 0 /\ addr + sz <= ShiftLeftPage(m.current_capacity_pages))

\* What a read of the region finds: outside the block, whatever lies there.
\* junk[i] is the byte that lies at the i-th address of the read, addr + i - 1,
\* when that address is outside the block; each such byte is its own.
RegionSeen(m, addr, sz, junk) ==
    LET limit == IF m.start = 0 THEN 0 ELSE ShiftLeftPage(m.current_capacity_pages)
        out == {a \in addr..(addr + sz - 1) :
                   a >= limit /\ a \notin DOMAIN m.region /\ BufByte(junk, a - addr + 1) # 0}
    IN [a \in DOMAIN m.region \cup out |->
           IF a \in out THEN BufByte(junk, a - addr + 1) ELSE m.region[a]]

\* Memory::load(void* buf, wptr_t addr, size_t size): [st, val, buf];
\* st is "segv" when the copy faults.
load(m, buf, addr, sz, fault, junk) ==
    IF is_valid_address(m, addr, sz)
    THEN IF ~InBacking(m, addr, sz) /\ fault
         THEN [st |-> "segv", val |-> FALSE, buf |-> buf]
         ELSE [st |-> "ret", val |-> TRUE,
               buf |-> MemcpyOut(buf, RegionSeen(m, addr, sz, junk), addr, sz)]
    ELSE [st |-> "ret", val |-> FALSE, buf |-> buf]

\* Memory::store(const void* buf, wptr_t addr, size_t size): [st, val, m]
storeAddrOnly(m, buf, addr, sz, fault) ==
    IF is_valid_address(m, addr, 0)
    THEN IF ~InBacking(m, addr, sz) /\ fault
         THEN [st |-> "segv", val |-> FALSE, m |-> m]
         ELSE [st |-> "ret", val |-> TRUE,
               m |-> [m EXCEPT !.region = MemcpyIn(@, addr, buf, sz)]]
    ELSE [st |-> "ret", val |-> FALSE, m |-> m]

store(m, buf, addr, sz, fault) ==
    IF is_valid_address(m, addr, sz)
    THEN IF ~InBacking(m, addr, sz) /\ fault
         THEN [st |-> "segv", val |-> FALSE, m |-> m]
         ELSE [st |-> "ret", val |-> TRUE,
               m |-> [m EXCEPT !.region = MemcpyIn(@, addr, buf, sz)]]
    ELSE [st |-> "ret", val |-> FALSE, m |-> m]

\* Memory::store<T>(const T* buf, wptr_t addr): buf is the object
\* representation of *buf, sizeof(T) bytes
storeT(m, buf, addr, fault) == store(m, buf, addr, Len(buf), fault)

\* Memory::load<T>(T* buf, wptr_t addr)
loadT(m, buf, addr, fault, junk) == load(m, buf, addr, Len(buf), fault, junk)

\* The records of stored that a store of sz bytes at addr leaves intact.
Intact(addr, sz) ==
    {r \in stored : r.addr + Len(r.buf) <= addr \/ addr + sz <= r.addr}

(***************************************************************************)
(* The calls made on one memory, and the arguments tried.                  *)
(***************************************************************************)
PageInputs == 0..MaxPages
MaxInputs == PageInputs \cup {PageLimit, WASM_UNLIMITED_PAGES}
GrowInputs == PageInputs \cup {PageLimit - 1, PageLimit, Pow2(SizeBits - 1), SIZE_MAX}
Descriptors ==
    {AbstractMemory(i, s, ip, mp) :
        i \in BOOLEAN, s \in BOOLEAN, ip \in PageInputs, mp \in MaxInputs}
    \cup {AbstractMemory(FALSE, FALSE, PageLimit, WASM_UNLIMITED_PAGES)}
\* the allocator's answers that matter to a call: all of them when the call
\* reaches std::realloc, one otherwise
AllocChoices(m, num_pages) ==
    IF /\ num_pages > m.current_capacity_pages
       /\ num_pages <= m.max_capacity_pages
       /\ ShiftRightPage(ShiftLeftPage(num_pages)) = num_pages
    THEN AllocInputs
    ELSE {CHOOSE a \in AllocInputs : a.ok}

\* wptr_t addresses at the start and the end of the memory, for load and store
AddrInputs(m) == {0, size(m) - 1, size(m), WPTR_MAX} \cap 0..WPTR_MAX
\* wptr_t addresses for is_valid_address alone
QueryAddrs(m) == (AddrInputs(m) \cup {1, size(m) + 1, WASM_PAGE_SIZE - 4, WASM_PAGE_SIZE - 3})
                    \cap 0..WPTR_MAX
\* whether a copy that leaves the block faults, where that can happen
FaultInputs(m, addr, sz) ==
    IF is_valid_address(m, addr, sz) /\ ~InBacking(m, addr, sz) THEN BOOLEAN ELSE {FALSE}
\* the bytes a load may find outside the block, one for each byte read:
\* all zero, all alike, and differing from one another
JunkSeqs ==
    { <<0, 0, 0, 0, 0, 0, 0, 0>>, <<1, 1, 1, 1, 1, 1, 1, 1>>,
      <<0, 33, 0, 33, 0, 33, 0, 33>>, <<1, 1, 0, 0, 0, 0, 0, 0>> }
JunkInputs(m, addr, sz) ==
    IF is_valid_address(m, addr, sz) /\ ~InBacking(m, addr, sz)
    THEN JunkSeqs ELSE {<<0, 0, 0, 0, 0, 0, 0, 0>>}
\* byte counts: short ones, and ones that make addr + size wrap
CopyLens(addr) == {0, 1, 2, SIZE_MAX} \cup (IF addr > 0 THEN {SIZE_MOD - addr} ELSE {})
\* byte counts for is_valid_address alone
QueryLens(m, addr) ==
    CopyLens(addr) \cup {4, WASM_PAGE_SIZE, WASM_PAGE_SIZE + 1}
        \cup ({size(m) - addr, size(m) - addr + 1} \cap 0..SIZE_MAX)

\* the caller's buffers: the source of a store, the destination of a load
SrcBufs == {<<1, 2>>, <<0, 0>>}
DestBuf == <<3, 3>>

Construct(abstract, alloc) ==
    /\ mstatus = "none"
    /\ LET o == MemoryCtor(abstract, alloc) IN
       /\ mstatus' = (IF o.st = "ok" THEN "live"
                      ELSE IF o.st = "fail" THEN "bad_alloc" ELSE "aborted")
       /\ mem' = (IF o.st = "ok" THEN o.m ELSE NoMemory)
       /\ ret' = [op |-> "Memory", st |-> o.st]
    /\ UNCHANGED stored
    /\ UNCHANGED type_vars
    /\ UNCHANGED link_vars

\* after_failure records that the call before this one was a grow that
\* returned WASM_ALLOCATE_FAILURE
Grow(new_pages, alloc) ==
    /\ mstatus = "live"
    /\ LET o == grow(mem, new_pages, alloc) IN
       /\ mstatus' = (IF o.st = "abort" THEN "aborted" ELSE "live")
       /\ mem' = o.m
       /\ ret' = [op |-> "grow", st |-> o.st, val |-> o.val, new_pages |-> new_pages,
                  after_failure |-> ( /\ ret.op = "grow" /\ ret.st = "ret"
                                      /\ ret.val = WASM_ALLOCATE_FAILURE )]
    /\ UNCHANGED stored
    /\ UNCHANGED type_vars
    /\ UNCHANGED link_vars

Store(buf, addr, sz, fault) ==
    /\ mstatus = "live"
    /\ LET o == store(mem, buf, addr, sz, fault) IN
       /\ mstatus' = (IF o.st = "segv" THEN "segv" ELSE "live")
       /\ mem' = o.m
       /\ ret' = [op |-> "store", st |-> o.st, val |-> o.val]
       /\ stored' = (IF o.st = "ret" /\ o.val THEN Intact(addr, sz) ELSE stored)
    /\ UNCHANGED type_vars
    /\ UNCHANGED link_vars

Load(addr, sz, fault, junk) ==
    /\ mstatus = "live"
    /\ LET o == load(mem, DestBuf, addr, sz, fault, junk) IN
       /\ mstatus' = (IF o.st = "segv" THEN "segv" ELSE "live")
       /\ mem' = mem
       /\ ret' = [op |-> "load", st |-> o.st, val |-> o.val, buf |-> o.buf]
    /\ UNCHANGED stored
    /\ UNCHANGED type_vars
    /\ UNCHANGED link_vars

IsValidAddress(addr, sz) ==
    /\ mstatus = "live"
    /\ ret' = [op |-> "is_valid_address", st |-> "ret", addr |-> addr, size |-> sz,
               val |-> is_valid_address(mem, addr, sz)]
    /\ UNCHANGED <<mstatus, mem, stored>>
    /\ UNCHANGED type_vars
    /\ UNCHANGED link_vars

\* the values handed to store<T>, as the bytes of uint8_t, uint16_t,
\* uint32_t and uint64_t objects
TypedBufs ==
    { <<222>>, <<173, 222>>, <<239, 190, 173, 222>>,
      <<190, 186, 254, 202, 239, 190, 173, 222>> }
\* the T objects a load<T> is given: `val = 0`
ZeroBufs == {[i \in 1..w |-> 0] : w \in {1, 2, 4, 8}}
\* an aligned and an unaligned address
TypedAddrs(m, w) == {0, 3}
\* the memories store<T> and load<T> are tried on: one page at first, with
\* a max below that, above it, and none
RoundDescriptors ==
    {d \in Descriptors : /\ ~d.is_import /\ ~d.is_shared /\ d.initial_pages = 1
                          /\ d.max_pages \in {0, MaxPages, WASM_UNLIMITED_PAGES}}

StoreT(buf, addr, fault) ==
    /\ mstatus = "live"
    /\ LET o == storeT(mem, buf, addr, fault) IN
       /\ mstatus' = (IF o.st = "segv" THEN "segv" ELSE "live")
       /\ mem' = o.m
       /\ ret' = [op |-> "store", st |-> o.st, val |-> o.val]
       /\ stored' = (IF o.st = "ret" /\ o.val
                     THEN Intact(addr, Len(buf)) \cup {[addr |-> addr, buf |-> buf]}
                     ELSE stored)
    /\ UNCHANGED type_vars
    /\ UNCHANGED link_vars

LoadT(buf, addr, fault, junk) ==
    /\ mstatus = "live"
    /\ LET o == loadT(mem, buf, addr, fault, junk) IN
       /\ mstatus' = (IF o.st = "segv" THEN "segv" ELSE "live")
       /\ mem' = mem
       /\ ret' = [op |-> "load", st |-> o.st, val |-> o.val, buf |-> o.buf]
    /\ UNCHANGED stored
    /\ UNCHANGED type_vars
    /\ UNCHANGED link_vars

(***************************************************************************)
(* module.hpp / func.hpp: descriptors.  Object addresses are positions in  *)
(* the heaps, 0 is nullptr.  Slot indices are the code's (from 0); slot i  *)
(* of a vector is element i + 1 of the sequence that models it.            *)
(***************************************************************************)
ExportType == {"Func", "Table", "Memory", "Global"}

Export(name, type, idx) == [name |-> name, type |-> type, idx |-> idx]

Import(module, name, type, idx) ==
    [module |-> module, name |-> name, type |-> type, idx |-> idx]

\* instrs is the address of the InstructionStream, 0 for nullptr
AbstractFunc(is_import, debug_name, instrs, sig) ==
    [is_import |-> is_import, debug_name |-> debug_name, instrs |-> instrs, sig |-> sig]

\* AbstractFunc::for_import
AbstractFunc_for_import(sig) == AbstractFunc(TRUE, "", 0, sig)

\* AbstractMemory::for_import
AbstractMemory_for_import(shared, initial_pages, max_pages) ==
    AbstractMemory(TRUE, shared, initial_pages, max_pages)

AbstractModule(imports, exports, memories, funcs) ==
    [_imports |-> imports, _exports |-> exports, _memories |-> memories, _funcs |-> funcs]

\* Module(): nothing in it; built tells whether a Module object exists
NoModule ==
    [built |-> FALSE, _imports |-> <<>>, _exports |-> <<>>, _memories |-> <<>>,
     _shared_memories |-> <<>>, _import_func_sigs |-> <<>>, _funcs |-> <<>>]

(***************************************************************************)
(* Environment::types(): the TypeTable as a value [heap, sigs, calls], and *)
(* TypeTable::sig on it, for the callers that intern several signatures.   *)
(***************************************************************************)
Types == [heap |-> sig_heap, sigs |-> _sigs, calls |-> sig_calls]

\* std::find_if over T.sigs
FindSigIn(T, return_types, param_types) ==
    LET hits == {i \in 1..Len(T.sigs) :
                    SigMatches(T.heap[T.sigs[i]], return_types, param_types)}
    IN IF hits = {} THEN 0 ELSE CHOOSE i \in hits : \A j \in hits : i <= j

\* TypeTable::sig: [T, ref], the table afterwards and the reference returned
sig(T, return_types, param_types) ==
    LET it == FindSigIn(T, return_types, param_types)
        sig_ref == IF it # 0 THEN T.sigs[it] ELSE Len(T.heap) + 1
        call == [return_types |-> return_types, param_types |-> param_types,
                 ref |-> sig_ref]
    IN IF it # 0
       THEN [T |-> [T EXCEPT !.calls = @ \cup {call}], ref |-> sig_ref]
       ELSE [T |-> [heap |-> Append(T.heap, FuncSig(return_types, param_types)),
                    sigs |-> Append(T.sigs, sig_ref),
                    calls |-> T.calls \cup {call}],
             ref |-> sig_ref]

(***************************************************************************)
(* func.hpp / func.cpp: unlinked and linked functions.                     *)
(***************************************************************************)
\* An UnlinkedFunc object: _internal.sig, _debug_name, _instrs
UnlinkedFunc(sig_ref, debug_name, instrs) ==
    [sig |-> sig_ref, _debug_name |-> debug_name, _instrs |-> instrs]

\* A LinkedFunc object: _unlinked, _module (the instance's address, 0 for none)
LinkedFunc(unlinked, module) == [_unlinked |-> unlinked, _module |-> module]

\* T* internal(): the address of the _internal member of the object at obj
internal(kind, obj) == [record |-> kind, container |-> obj]

\* &func->unlinked().signature()
signature(uh, lh, func) == uh[lh[func]._unlinked].sig

(***************************************************************************)
(* Module::Module(const AbstractModule&, Environment&)  (module.cpp:26-48) *)
(***************************************************************************)
\* the first std::transform recording a signature for every function
RECURSIVE ImportFuncSigsAll(_, _, _, _)
ImportFuncSigsAll(T, funcs, k, out) ==
    IF k > Len(funcs) THEN [T |-> T, out |-> out]
    ELSE LET r == sig(T, funcs[k].sig.return_types, funcs[k].sig.param_types)
         IN ImportFuncSigsAll(r.T, funcs, k + 1, Append(out, r.ref))

\* the first std::transform: the interned signature of each imported
\* function, nullptr for the others; [T, out]
RECURSIVE ImportFuncSigs(_, _, _, _)
ImportFuncSigs(T, funcs, k, out) ==
    IF k > Len(funcs) THEN [T |-> T, out |-> out]
    ELSE IF funcs[k].is_import
    THEN LET r == sig(T, funcs[k].sig.return_types, funcs[k].sig.param_types)
         IN ImportFuncSigs(r.T, funcs, k + 1, Append(out, r.ref))
    ELSE ImportFuncSigs(T, funcs, k + 1, Append(out, 0))

\* UnlinkedFunc::instantiate(func, env) for a function that is not an
\* import: [T, obj]
UnlinkedFunc_instantiate(T, func) ==
    LET r == sig(T, func.sig.return_types, func.sig.param_types)
    IN [T |-> r.T, obj |-> UnlinkedFunc(r.ref, func.debug_name, func.instrs)]

\* the second std::transform: an UnlinkedFunc for each defined function,
\* nullptr for the imports; [T, uh, out]
RECURSIVE ModuleFuncs(_, _, _, _, _)
ModuleFuncs(T, uh, funcs, k, out) ==
    IF k > Len(funcs) THEN [T |-> T, uh |-> uh, out |-> out]
    ELSE IF funcs[k].is_import
    THEN ModuleFuncs(T, uh, funcs, k + 1, Append(out, 0))
    ELSE LET u == UnlinkedFunc_instantiate(T, funcs[k])
         IN ModuleFuncs(u.T, Append(uh, u.obj), funcs, k + 1, Append(out, Len(uh) + 1))

\* the third std::transform: a Memory for each defined shared memory,
\* nullptr for the others; allocs[k] is the allocator's answer for slot
\* k - 1; [st, mh, out], st "fail" for std::bad_alloc
RECURSIVE ModuleSharedMemories(_, _, _, _, _)
ModuleSharedMemories(mh, memories, allocs, k, out) ==
    IF k > Len(memories) THEN [st |-> "ok", mh |-> mh, out |-> out]
    ELSE IF memories[k].is_shared /\ ~memories[k].is_import
    THEN LET o == MemoryCtor(memories[k], allocs[k])
         IN IF o.st # "ok" THEN [st |-> o.st, mh |-> mh, out |-> out]
            ELSE ModuleSharedMemories(Append(mh, o.m), memories, allocs, k + 1,
                                      Append(out, Len(mh) + 1))
    ELSE ModuleSharedMemories(mh, memories, allocs, k + 1, Append(out, 0))

\* Module::Module: [st, T, uh, mh, module]
ModuleCtor(T, uh, mh, abstract, allocs) ==
    LET s == ImportFuncSigs(T, abstract._funcs, 1, <<>>)
        f == ModuleFuncs(s.T, uh, abstract._funcs, 1, <<>>)
        m == ModuleSharedMemories(mh, abstract._memories, allocs, 1, <<>>)
    IN IF m.st # "ok"
       THEN [st |-> m.st, T |-> f.T, uh |-> uh, mh |-> mh, module |-> NoModule]
       ELSE [st |-> "ok", T |-> f.T, uh |-> f.uh, mh |-> m.mh,
             module |-> [built |-> TRUE,
                         _imports |-> abstract._imports,
                         _exports |-> abstract._exports,
                         _memories |-> abstract._memories,
                         _shared_memories |-> m.out,
                         _import_func_sigs |-> s.out,
                         _funcs |-> f.out]]

(***************************************************************************)
(* module.hpp: the import environment.  An ImportModule is a record with   *)
(* its kind ("mock", "instance" or "multi"); a lookup yields [st, val]: st *)
(* "ok" with the address found (0 for nullptr) or "LinkError".             *)
(***************************************************************************)
\* test/module.cpp: MockImportModule, two maps from export name to object
MockImportModule(funcs, memories) ==
    [kind |-> "mock", _funcs |-> funcs, _memories |-> memories]

\* the nullptr ImportModule*
NullImportModule == [kind |-> "null"]

Found(val) == [st |-> "ok", val |-> val]

\* MockImportModule::find_func(const Import&)
Mock_find_func(module, import) ==
    Found(IF import.name \in DOMAIN module._funcs THEN module._funcs[import.name] ELSE 0)

\* MockImportModule::find_memory(const Import&)
Mock_find_memory(module, import) ==
    Found(IF import.name \in DOMAIN module._memories
          THEN module._memories[import.name] ELSE 0)

\* a ModuleInstance used as an ImportModule: the address of the instance
InstanceModule(instance) == [kind |-> "instance", instance |-> instance]

\* ImportMultiModule(std::move(modules))
ImportMultiModule(modules) == [kind |-> "multi", _modules |-> modules]

\* the LinkError(import, ..) a ModuleInstance throws out of a lookup
WrongType(import) == [st |-> "LinkError", val |-> 0, import |-> import]

\* ModuleInstance::find_export: the position in _exports of the export
\* returned (the pointer &*it), 0 for nullptr
find_export(inst, import) ==
    LET hits == {e \in 1..Len(inst._exports) : inst._exports[e].name = import.name}
    IN IF hits = {} THEN 0 ELSE CHOOSE e \in hits : \A d \in hits : e <= d

\* find_func answering with the instance's first function
ModuleInstance_find_funcFirst(inst, import) ==
    LET e == find_export(inst, import) IN
    IF e = 0 THEN Found(0)
    ELSE IF inst._exports[e].type # "Func" THEN WrongType(import)
    ELSE Found(inst._funcs[1])

\* find_func answering only with functions the instance owns
ModuleInstance_find_funcOwned(inst, import) ==
    LET e == find_export(inst, import) IN
    IF e = 0 THEN Found(0)
    ELSE IF inst._exports[e].type # "Func" THEN WrongType(import)
    ELSE IF \E o \in 1..Len(inst._owned_funcs) :
               inst._owned_funcs[o] = inst._funcs[inst._exports[e].idx + 1]
    THEN Found(inst._funcs[inst._exports[e].idx + 1])
    ELSE Found(0)

\* ModuleInstance::find_func
ModuleInstance_find_func(inst, import) ==
    LET e == find_export(inst, import) IN
    IF e = 0 THEN Found(0)
    ELSE IF inst._exports[e].type # "Func" THEN WrongType(import)
    ELSE Found(inst._funcs[inst._exports[e].idx + 1])

\* find_memory without the test of the export's type
ModuleInstance_find_memoryAnyKind(inst, import) ==
    LET e == find_export(inst, import) IN
    IF e = 0 THEN Found(0)
    ELSE Found(inst._memories[inst._exports[e].idx + 1])

\* ModuleInstance::find_memory
ModuleInstance_find_memory(inst, import) ==
    LET e == find_export(inst, import) IN
    IF e = 0 THEN Found(0)
    ELSE IF inst._exports[e].type # "Memory" THEN WrongType(import)
    ELSE Found(inst._memories[inst._exports[e].idx + 1])

\* module->find_func(import), the virtual call, and
\* ImportMultiModule::find_func from its k-th module on
RECURSIVE ImportModule_find_func(_, _)
RECURSIVE ImportMultiModule_find_func(_, _, _)
ImportModule_find_func(module, import) ==
    IF module.kind = "mock" THEN Mock_find_func(module, import)
    ELSE IF module.kind = "instance"
    THEN ModuleInstance_find_func(instances[module.instance], import)
    ELSE ImportMultiModule_find_func(module, import, 1)

ImportMultiModule_find_func(multi, import, k) ==
    IF k > Len(multi._modules) THEN Found(0)
    ELSE IF ImportModule_find_func(multi._modules[k], import).st = "LinkError"
         \/ ImportModule_find_func(multi._modules[k], import).val # 0
    THEN ImportModule_find_func(multi._modules[k], import)
    ELSE ImportMultiModule_find_func(multi, import, k + 1)

\* module->find_memory(import) and ImportMultiModule::find_memory
RECURSIVE ImportModule_find_memory(_, _)
RECURSIVE ImportMultiModule_find_memory(_, _, _)
ImportModule_find_memory(module, import) ==
    IF module.kind = "mock" THEN Mock_find_memory(module, import)
    ELSE IF module.kind = "instance"
    THEN ModuleInstance_find_memory(instances[module.instance], import)
    ELSE ImportMultiModule_find_memory(module, import, 1)

ImportMultiModule_find_memory(multi, import, k) ==
    IF k > Len(multi._modules) THEN Found(0)
    ELSE IF ImportModule_find_memory(multi._modules[k], import).st = "LinkError"
         \/ ImportModule_find_memory(multi._modules[k], import).val # 0
    THEN ImportModule_find_memory(multi._modules[k], import)
    ELSE ImportMultiModule_find_memory(multi, import, k + 1)

\* ImportEnvironment::find_module
find_module(env, import) ==
    IF import.module \in DOMAIN env THEN env[import.module] ELSE NullImportModule

\* ImportEnvironment::find_func: module ? module->find_func(import) : nullptr
find_func(env, import) ==
    IF find_module(env, import).kind # "null"
    THEN ImportModule_find_func(find_module(env, import), import)
    ELSE Found(0)

\* ImportEnvironment::find_memory
find_memory(env, import) ==
    IF find_module(env, import).kind # "null"
    THEN ImportModule_find_memory(find_module(env, import), import)
    ELSE Found(0)

(***************************************************************************)
(* module.cpp: ModuleInstance::instantiate.                                *)
(***************************************************************************)
\* an entry of `new T*[n]` that nothing has been assigned to
Uninitialized == [record |-> "uninitialized", container |-> 0]

\* new ModuleInstance(), _internal.init(..), the copies and the two
\* resize calls (module.cpp:130-136)
NewInstance(module) ==
    [ _internal |-> [memory_table |-> [i \in 1..Len(module._memories) |-> Uninitialized],
                     func_table |-> [i \in 1..Len(module._funcs) |-> Uninitialized]],
      _exports |-> module._exports,
      _owned_funcs |-> <<>>,
      _funcs |-> [i \in 1..Len(module._funcs) |-> 0],
      _memories |-> [i \in 1..Len(module._memories) |-> 0] ]

\* what one step of the import loop ends with
Linked(inst, lookups) ==
    [st |-> "ok", at |-> 0, what |-> "", inst |-> inst, lookups |-> lookups]
Thrown(k, what, inst, lookups) ==
    [st |-> "LinkError", at |-> k, what |-> what, inst |-> inst, lookups |-> lookups]
Aborted(k, what, inst, lookups) ==
    [st |-> "abort", at |-> k, what |-> what, inst |-> inst, lookups |-> lookups]

\* case ExportType::Func without the comparison of signatures
ImportFuncNoSigCheck(module, env, uh, lh, k, inst, lookups) ==
    LET i == module._imports[k] IN
    IF ~(i.idx < Len(inst._funcs))
    THEN Aborted(k, "Import to out-of-bounds index", inst, lookups)
    ELSE IF inst._funcs[i.idx + 1] # 0
    THEN Aborted(k, "Multiple imports to same index", inst, lookups)
    ELSE
      LET found == find_func(env, i)
          looked == Append(lookups, i)
          func == found.val
      IN IF found.st = "LinkError" THEN Thrown(k, "has wrong type", inst, looked)
         ELSE IF func = 0 THEN Thrown(k, "not found", inst, looked)
         ELSE Linked([inst EXCEPT
                        !._internal.func_table[i.idx + 1] = internal("LinkedFuncInternal", func),
                        !._funcs[i.idx + 1] = func],
                     looked)

\* the Func case without the assertion on a slot already filled
ImportFuncNoDupCheck(module, env, uh, lh, k, inst, lookups) ==
    LET i == module._imports[k] IN
    IF ~(i.idx < Len(inst._funcs))
    THEN Aborted(k, "Import to out-of-bounds index", inst, lookups)
    ELSE
      LET found == find_func(env, i)
          looked == Append(lookups, i)
          func == found.val
      IN IF found.st = "LinkError" THEN Thrown(k, "has wrong type", inst, looked)
         ELSE IF func = 0 THEN Thrown(k, "not found", inst, looked)
         ELSE IF signature(uh, lh, func) # module._import_func_sigs[i.idx + 1]
         THEN Thrown(k, "has wrong signature", inst, looked)
         ELSE Linked([inst EXCEPT
                        !._internal.func_table[i.idx + 1] = internal("LinkedFuncInternal", func),
                        !._funcs[i.idx + 1] = func],
                     looked)

\* case ExportType::Func (module.cpp:140-164) for the k-th import
ImportFunc(module, env, uh, lh, k, inst, lookups) ==
    LET i == module._imports[k] IN
    IF ~(i.idx < Len(inst._funcs))
    THEN Aborted(k, "Import to out-of-bounds index", inst, lookups)
    ELSE IF inst._funcs[i.idx + 1] # 0
    THEN Aborted(k, "Multiple imports to same index", inst, lookups)
    ELSE
      LET found == find_func(env, i)
          looked == Append(lookups, i)
          func == found.val
      IN IF found.st = "LinkError" THEN Thrown(k, "has wrong type", inst, looked)
         ELSE IF func = 0 THEN Thrown(k, "not found", inst, looked)
         ELSE IF signature(uh, lh, func) # module._import_func_sigs[i.idx + 1]
         THEN Thrown(k, "has wrong signature", inst, looked)
         ELSE Linked([inst EXCEPT
                        !._internal.func_table[i.idx + 1] = internal("LinkedFuncInternal", func),
                        !._funcs[i.idx + 1] = func],
                     looked)

\* case ExportType::Memory without the assignment to memory_table
ImportMemoryNoTable(module, env, mh, k, inst, lookups) ==
    LET i == module._imports[k] IN
    IF ~(i.idx < Len(inst._memories))
    THEN Aborted(k, "Import to out-of-bounds index", inst, lookups)
    ELSE IF inst._memories[i.idx + 1] # 0
    THEN Aborted(k, "Multiple imports to same index", inst, lookups)
    ELSE
      LET found == find_memory(env, i)
          looked == Append(lookups, i)
          m == found.val
          want == module._memories[i.idx + 1]
      IN IF found.st = "LinkError" THEN Thrown(k, "has wrong type", inst, looked)
         ELSE IF m = 0 THEN Thrown(k, "not found", inst, looked)
         ELSE IF is_shared(mh[m]) # want.is_shared
         THEN Thrown(k, "shared flag differs", inst, looked)
         ELSE IF initial_size_pages(mh[m]) < want.initial_pages
         THEN Thrown(k, "is smaller than the import's minimum size", inst, looked)
         ELSE IF max_capacity_pages(mh[m]) > want.max_pages
         THEN Thrown(k, "has a larger max size", inst, looked)
         ELSE Linked([inst EXCEPT !._memories[i.idx + 1] = m], looked)

\* case ExportType::Memory with the maxima compared as plain numbers of
\* pages below the unlimited mark
ImportMemoryUnlimitedFits(module, env, mh, k, inst, lookups) ==
    LET i == module._imports[k] IN
    IF ~(i.idx < Len(inst._memories))
    THEN Aborted(k, "Import to out-of-bounds index", inst, lookups)
    ELSE IF inst._memories[i.idx + 1] # 0
    THEN Aborted(k, "Multiple imports to same index", inst, lookups)
    ELSE
      LET found == find_memory(env, i)
          looked == Append(lookups, i)
          m == found.val
          want == module._memories[i.idx + 1]
      IN IF found.st = "LinkError" THEN Thrown(k, "has wrong type", inst, looked)
         ELSE IF m = 0 THEN Thrown(k, "not found", inst, looked)
         ELSE IF is_shared(mh[m]) # want.is_shared
         THEN Thrown(k, "shared flag differs", inst, looked)
         ELSE IF initial_size_pages(mh[m]) < want.initial_pages
         THEN Thrown(k, "is smaller than the import's minimum size", inst, looked)
         ELSE IF /\ max_capacity_pages(mh[m]) # WASM_UNLIMITED_PAGES
                 /\ max_capacity_pages(mh[m]) > want.max_pages
         THEN Thrown(k, "has a larger max size", inst, looked)
         ELSE Linked([inst EXCEPT
                        !._internal.memory_table[i.idx + 1] = internal("MemoryInternal", m),
                        !._memories[i.idx + 1] = m],
                     looked)

\* case ExportType::Memory comparing the sizes before the shared flags
ImportMemorySizesFirst(module, env, mh, k, inst, lookups) ==
    LET i == module._imports[k] IN
    IF ~(i.idx < Len(inst._memories))
    THEN Aborted(k, "Import to out-of-bounds index", inst, lookups)
    ELSE IF inst._memories[i.idx + 1] # 0
    THEN Aborted(k, "Multiple imports to same index", inst, lookups)
    ELSE
      LET found == find_memory(env, i)
          looked == Append(lookups, i)
          m == found.val
          want == module._memories[i.idx + 1]
      IN IF found.st = "LinkError" THEN Thrown(k, "has wrong type", inst, looked)
         ELSE IF m = 0 THEN Thrown(k, "not found", inst, looked)
         ELSE IF initial_size_pages(mh[m]) < want.initial_pages
         THEN Thrown(k, "is smaller than the import's minimum size", inst, looked)
         ELSE IF max_capacity_pages(mh[m]) > want.max_pages
         THEN IF max_capacity_pages(mh[m]) = WASM_UNLIMITED_PAGES
              THEN Thrown(k, "has a larger max size (unlimited)", inst, looked)
              ELSE Thrown(k, "has a larger max size", inst, looked)
         ELSE IF is_shared(mh[m]) # want.is_shared
         THEN IF is_shared(mh[m])
              THEN Thrown(k, "was shared, but was imported as unshared", inst, looked)
              ELSE Thrown(k, "was unshared, but was imported as shared", inst, looked)
         ELSE Linked([inst EXCEPT
                        !._internal.memory_table[i.idx + 1] = internal("MemoryInternal", m),
                        !._memories[i.idx + 1] = m],
                     looked)

\* case ExportType::Memory (module.cpp:165-222) for the k-th import
ImportMemory(module, env, mh, k, inst, lookups) ==
    LET i == module._imports[k] IN
    IF ~(i.idx < Len(inst._memories))
    THEN Aborted(k, "Import to out-of-bounds index", inst, lookups)
    ELSE IF inst._memories[i.idx + 1] # 0
    THEN Aborted(k, "Multiple imports to same index", inst, lookups)
    ELSE
      LET found == find_memory(env, i)
          looked == Append(lookups, i)
          m == found.val
          want == module._memories[i.idx + 1]
      IN IF found.st = "LinkError" THEN Thrown(k, "has wrong type", inst, looked)
         ELSE IF m = 0 THEN Thrown(k, "not found", inst, looked)
         ELSE IF is_shared(mh[m]) # want.is_shared
         THEN IF is_shared(mh[m])
              THEN Thrown(k, "was shared, but was imported as unshared", inst, looked)
              ELSE Thrown(k, "was unshared, but was imported as shared", inst, looked)
         ELSE IF initial_size_pages(mh[m]) < want.initial_pages
         THEN Thrown(k, "is smaller than the import's minimum size", inst, looked)
         ELSE IF max_capacity_pages(mh[m]) > want.max_pages
         THEN IF max_capacity_pages(mh[m]) = WASM_UNLIMITED_PAGES
              THEN Thrown(k, "has a larger max size (unlimited)", inst, looked)
              ELSE Thrown(k, "has a larger max size", inst, looked)
         ELSE Linked([inst EXCEPT
                        !._internal.memory_table[i.idx + 1] = internal("MemoryInternal", m),
                        !._memories[i.idx + 1] = m],
                     looked)

\* the loop over module._imports going on after a failure and ending with
\* the last one
RECURSIVE ResolveImportsReportLast(_, _, _, _, _, _, _, _)
ResolveImportsReportLast(module, env, uh, lh, mh, k, inst, lookups) ==
    IF k > Len(module._imports) THEN Linked(inst, lookups)
    ELSE
      LET i == module._imports[k]
          r == IF i.type = "Func" THEN ImportFunc(module, env, uh, lh, k, inst, lookups)
               ELSE IF i.type = "Memory" THEN ImportMemory(module, env, mh, k, inst, lookups)
               ELSE Aborted(k, "Unknown import type", inst, lookups)
          rest == ResolveImportsReportLast(module, env, uh, lh, mh, k + 1, r.inst, r.lookups)
      IN IF r.st = "abort" THEN r
         ELSE IF r.st = "ok" \/ rest.st # "ok" THEN rest
         ELSE [r EXCEPT !.lookups = rest.lookups]

\* the loop over module._imports with a case for ExportType::Global that
\* passes over the import
RECURSIVE ResolveImportsSkipGlobal(_, _, _, _, _, _, _, _)
ResolveImportsSkipGlobal(module, env, uh, lh, mh, k, inst, lookups) ==
    IF k > Len(module._imports) THEN Linked(inst, lookups)
    ELSE
      LET i == module._imports[k]
          r == IF i.type = "Func" THEN ImportFunc(module, env, uh, lh, k, inst, lookups)
               ELSE IF i.type = "Memory" THEN ImportMemory(module, env, mh, k, inst, lookups)
               ELSE IF i.type = "Global" THEN Linked(inst, lookups)
               ELSE Aborted(k, "Unknown import type", inst, lookups)
      IN IF r.st # "ok" THEN r
         ELSE ResolveImportsSkipGlobal(module, env, uh, lh, mh, k + 1, r.inst, r.lookups)

\* the loop over module._imports (module.cpp:138-226), from the k-th on
RECURSIVE ResolveImports(_, _, _, _, _, _, _, _)
ResolveImports(module, env, uh, lh, mh, k, inst, lookups) ==
    IF k > Len(module._imports) THEN Linked(inst, lookups)
    ELSE
      LET i == module._imports[k]
          r == IF i.type = "Func" THEN ImportFunc(module, env, uh, lh, k, inst, lookups)
               ELSE IF i.type = "Memory" THEN ImportMemory(module, env, mh, k, inst, lookups)
               ELSE Aborted(k, "Unknown import type", inst, lookups)
      IN IF r.st # "ok" THEN r
         ELSE ResolveImports(module, env, uh, lh, mh, k + 1, r.inst, r.lookups)

\* LinkedFunc::instantiate leaving the module unset, as create_mock does
LinkedFunc_instantiateNoModule(unlinked, module) == LinkedFunc(unlinked, 0)

\* LinkedFunc::instantiate(unlinked, module)
LinkedFunc_instantiate(unlinked, module) == LinkedFunc(unlinked, module)

\* the loop over module._funcs without the assignment to func_table
RECURSIVE DefinedFuncsNoTable(_, _, _, _, _)
DefinedFuncsNoTable(module, self, lh, k, inst) ==
    IF k > Len(module._funcs) THEN [st |-> "ok", lh |-> lh, inst |-> inst]
    ELSE IF module._funcs[k] # 0
    THEN IF inst._funcs[k] # 0 THEN [st |-> "abort", lh |-> lh, inst |-> inst]
         ELSE LET linked_func == Len(lh) + 1
              IN DefinedFuncsNoTable(module, self,
                    Append(lh, LinkedFunc_instantiate(module._funcs[k], self)), k + 1,
                    [inst EXCEPT
                       !._funcs[k] = linked_func,
                       !._owned_funcs = Append(@, linked_func)])
    ELSE IF inst._funcs[k] = 0 THEN [st |-> "abort", lh |-> lh, inst |-> inst]
         ELSE DefinedFuncsNoTable(module, self, lh, k + 1, inst)

\* the loop over module._funcs (module.cpp:228-242), from slot k - 1 on;
\* self is the address of the instance; [st, lh, inst]
RECURSIVE DefinedFuncs(_, _, _, _, _)
DefinedFuncs(module, self, lh, k, inst) ==
    IF k > Len(module._funcs) THEN [st |-> "ok", lh |-> lh, inst |-> inst]
    ELSE IF module._funcs[k] # 0
    THEN IF inst._funcs[k] # 0 THEN [st |-> "abort", lh |-> lh, inst |-> inst]
         ELSE LET linked_func == Len(lh) + 1
              IN DefinedFuncs(module, self,
                    Append(lh, LinkedFunc_instantiate(module._funcs[k], self)), k + 1,
                    [inst EXCEPT
                       !._internal.func_table[k] = internal("LinkedFuncInternal", linked_func),
                       !._funcs[k] = linked_func,
                       !._owned_funcs = Append(@, linked_func)])
    ELSE IF inst._funcs[k] = 0 THEN [st |-> "abort", lh |-> lh, inst |-> inst]
         ELSE DefinedFuncs(module, self, lh, k + 1, inst)

\* the loop over module._memories creating the shared memories too
RECURSIVE DefinedMemoriesAllFresh(_, _, _, _, _)
DefinedMemoriesAllFresh(module, mh, allocs, k, inst) ==
    IF k > Len(module._memories) THEN [st |-> "ok", mh |-> mh, inst |-> inst]
    ELSE
      LET memory == module._memories[k] IN
      IF ~memory.is_import
      THEN IF inst._memories[k] # 0 THEN [st |-> "abort", mh |-> mh, inst |-> inst]
           ELSE LET o == MemoryCtor(memory, allocs[k])
                    m == Len(mh) + 1
                IN IF o.st = "abort" THEN [st |-> "abort", mh |-> mh, inst |-> inst]
                   ELSE IF o.st = "fail"
                   THEN [st |-> "bad_alloc", mh |-> mh, inst |-> inst]
                   ELSE DefinedMemoriesAllFresh(module, Append(mh, o.m), allocs, k + 1,
                           [inst EXCEPT
                              !._internal.memory_table[k] = internal("MemoryInternal", m),
                              !._memories[k] = m])
      ELSE IF inst._memories[k] = 0 THEN [st |-> "abort", mh |-> mh, inst |-> inst]
           ELSE DefinedMemoriesAllFresh(module, mh, allocs, k + 1, inst)

\* the loop over module._memories handing out an unshared memory made earlier
RECURSIVE DefinedMemoriesReuse(_, _, _, _, _)
DefinedMemoriesReuse(module, mh, allocs, k, inst) ==
    IF k > Len(module._memories) THEN [st |-> "ok", mh |-> mh, inst |-> inst]
    ELSE
      LET memory == module._memories[k] IN
      IF ~memory.is_import
      THEN IF inst._memories[k] # 0 THEN [st |-> "abort", mh |-> mh, inst |-> inst]
           ELSE IF memory.is_shared
           THEN IF module._shared_memories[k] = 0
                THEN [st |-> "abort", mh |-> mh, inst |-> inst]
                ELSE DefinedMemoriesReuse(module, mh, allocs, k + 1,
                        [inst EXCEPT
                           !._internal.memory_table[k] =
                               internal("MemoryInternal", module._shared_memories[k]),
                           !._memories[k] = module._shared_memories[k]])
           ELSE IF module._shared_memories[k] # 0
                THEN [st |-> "abort", mh |-> mh, inst |-> inst]
                ELSE IF \E m \in 1..Len(mh) : ~is_shared(mh[m])
                THEN LET m == CHOOSE m \in 1..Len(mh) : ~is_shared(mh[m])
                     IN DefinedMemoriesReuse(module, mh, allocs, k + 1,
                                [inst EXCEPT
                                   !._internal.memory_table[k] = internal("MemoryInternal", m),
                                   !._memories[k] = m])
                ELSE LET o == MemoryCtor(memory, allocs[k])
                         m == Len(mh) + 1
                     IN IF o.st = "abort" THEN [st |-> "abort", mh |-> mh, inst |-> inst]
                        ELSE IF o.st = "fail"
                        THEN [st |-> "bad_alloc", mh |-> mh, inst |-> inst]
                        ELSE DefinedMemoriesReuse(module, Append(mh, o.m), allocs, k + 1,
                                [inst EXCEPT
                                   !._internal.memory_table[k] = internal("MemoryInternal", m),
                                   !._memories[k] = m])
      ELSE IF inst._memories[k] = 0 THEN [st |-> "abort", mh |-> mh, inst |-> inst]
           ELSE DefinedMemoriesReuse(module, mh, allocs, k + 1, inst)

\* the loop over module._memories putting a defined memory over whatever
\* an import left in the slot
RECURSIVE DefinedMemoriesOverwrite(_, _, _, _, _)
DefinedMemoriesOverwrite(module, mh, allocs, k, inst) ==
    IF k > Len(module._memories) THEN [st |-> "ok", mh |-> mh, inst |-> inst]
    ELSE
      LET memory == module._memories[k] IN
      IF ~memory.is_import
      THEN IF memory.is_shared
           THEN IF module._shared_memories[k] = 0
                THEN [st |-> "abort", mh |-> mh, inst |-> inst]
                ELSE DefinedMemoriesOverwrite(module, mh, allocs, k + 1,
                        [inst EXCEPT
                           !._internal.memory_table[k] =
                               internal("MemoryInternal", module._shared_memories[k]),
                           !._memories[k] = module._shared_memories[k]])
           ELSE IF module._shared_memories[k] # 0
                THEN [st |-> "abort", mh |-> mh, inst |-> inst]
                ELSE LET o == MemoryCtor(memory, allocs[k])
                         m == Len(mh) + 1
                     IN IF o.st = "abort" THEN [st |-> "abort", mh |-> mh, inst |-> inst]
                        ELSE IF o.st = "fail"
                        THEN [st |-> "bad_alloc", mh |-> mh, inst |-> inst]
                        ELSE DefinedMemoriesOverwrite(module, Append(mh, o.m), allocs, k + 1,
                                [inst EXCEPT
                                   !._internal.memory_table[k] = internal("MemoryInternal", m),
                                   !._memories[k] = m])
      ELSE IF inst._memories[k] = 0 THEN [st |-> "abort", mh |-> mh, inst |-> inst]
           ELSE DefinedMemoriesOverwrite(module, mh, allocs, k + 1, inst)

\* the loop over module._memories (module.cpp:244-265), from slot k - 1
\* on; allocs[k] is the allocator's answer for slot k - 1; [st, mh, inst]
RECURSIVE DefinedMemories(_, _, _, _, _)
DefinedMemories(module, mh, allocs, k, inst) ==
    IF k > Len(module._memories) THEN [st |-> "ok", mh |-> mh, inst |-> inst]
    ELSE
      LET memory == module._memories[k] IN
      IF ~memory.is_import
      THEN IF inst._memories[k] # 0 THEN [st |-> "abort", mh |-> mh, inst |-> inst]
           ELSE IF memory.is_shared
           THEN IF module._shared_memories[k] = 0
                THEN [st |-> "abort", mh |-> mh, inst |-> inst]
                ELSE DefinedMemories(module, mh, allocs, k + 1,
                        [inst EXCEPT
                           !._internal.memory_table[k] =
                               internal("MemoryInternal", module._shared_memories[k]),
                           !._memories[k] = module._shared_memories[k]])
           ELSE IF module._shared_memories[k] # 0
                THEN [st |-> "abort", mh |-> mh, inst |-> inst]
                ELSE LET o == MemoryCtor(memory, allocs[k])
                         m == Len(mh) + 1
                     IN IF o.st = "abort" THEN [st |-> "abort", mh |-> mh, inst |-> inst]
                        ELSE IF o.st = "fail"
                        THEN [st |-> "bad_alloc", mh |-> mh, inst |-> inst]
                        ELSE DefinedMemories(module, Append(mh, o.m), allocs, k + 1,
                                [inst EXCEPT
                                   !._internal.memory_table[k] = internal("MemoryInternal", m),
                                   !._memories[k] = m])
      ELSE IF inst._memories[k] = 0 THEN [st |-> "abort", mh |-> mh, inst |-> inst]
           ELSE DefinedMemories(module, mh, allocs, k + 1, inst)

\* ModuleInstance::instantiate(module, imports): [st, at, what, lookups, lh,
\* mh, inst].  st is "ok" (inst is returned), "LinkError" (thrown for the
\* at-th import), "bad_alloc" or "abort"; an exception destroys the
\* instance and what it owns, so the heaps are as before the call.
instantiate(module, env, uh, lh, mh, self, allocs) ==
    LET r == ResolveImports(module, env, uh, lh, mh, 1, NewInstance(module), <<>>)
        f == DefinedFuncs(module, self, lh, 1, r.inst)
        m == DefinedMemories(module, mh, allocs, 1, f.inst)
        Ended(st, at, what) ==
            [st |-> st, at |-> at, what |-> what, lookups |-> r.lookups,
             lh |-> lh, mh |-> mh, inst |-> NewInstance(module)]
    IN IF r.st # "ok" THEN Ended(r.st, r.at, r.what)
       ELSE IF f.st # "ok" THEN Ended(f.st, 0, "")
       ELSE IF m.st # "ok" THEN Ended(m.st, 0, "")
       ELSE [st |-> "ok", at |-> 0, what |-> "", lookups |-> r.lookups,
             lh |-> f.lh, mh |-> m.mh, inst |-> m.inst]

\* no InstructionCursor constructed yet
NoCursor == [built |-> FALSE, _stream |-> <<>>, _cursor |-> 0]

(***************************************************************************)
(* The calls of a host that links one module: it creates functions and     *)
(* memories, offers them under names in an import environment, builds a    *)
(* Module, in any order, and then instantiates the module once.            *)
(***************************************************************************)
LinkIdle ==
    /\ unlinked_heap = <<>>
    /\ linked_heap = <<>>
    /\ mem_heap = <<>>
    /\ mod = NoModule
    /\ ienv = [n \in {} |-> NullImportModule]
    /\ instances = <<>>
    /\ link_ret = [op |-> "none", st |-> "none"]
    /\ cursor = NoCursor

\* the signature the imports declare, and the ones the host's functions have
DeclaredSig == FuncSig(<<i32>>, <<i32>>)
SuppliedSigs ==
    { DeclaredSig,
      FuncSig(<<i32>>, <<i32, i32>>),
      FuncSig(<<>>, <<i32>>),
      FuncSig(<<f32>>, <<i32>>) }

\* the memories the host creates
SuppliedMemories ==
    { AbstractMemory(FALSE, FALSE, 1, MaxPages),
      AbstractMemory(FALSE, FALSE, 0, MaxPages),
      AbstractMemory(FALSE, FALSE, 1, MaxPages + 1),
      AbstractMemory(FALSE, FALSE, 1, WASM_UNLIMITED_PAGES),
      AbstractMemory(FALSE, TRUE, 1, MaxPages) }

ImportF == Import("env", "f", "Func", 0)
\* a second slot importing the same export
ImportF1 == Import("env", "f", "Func", 1)
ImportM == Import("env", "m", "Memory", 0)

\* the modules linked
AbstractModules ==
    { AbstractModule(<<ImportF>>, <<>>, <<>>, <<AbstractFunc_for_import(DeclaredSig)>>),
      AbstractModule(<<ImportM>>, <<>>,
                     <<AbstractMemory_for_import(FALSE, 1, MaxPages)>>, <<>>),
      AbstractModule(<<ImportM>>, <<>>,
                     <<AbstractMemory_for_import(TRUE, 1, MaxPages)>>, <<>>),
      AbstractModule(<<ImportM>>, <<>>,
                     <<AbstractMemory_for_import(FALSE, 1, WASM_UNLIMITED_PAGES)>>, <<>>),
      AbstractModule(<<ImportF, ImportM>>, <<>>,
                     <<AbstractMemory_for_import(FALSE, 1, MaxPages)>>,
                     <<AbstractFunc_for_import(DeclaredSig)>>),
      AbstractModule(<<ImportM, ImportF>>, <<>>,
                     <<AbstractMemory_for_import(FALSE, 1, MaxPages)>>,
                     <<AbstractFunc_for_import(DeclaredSig)>>),
      AbstractModule(<<ImportF, ImportF1>>, <<>>, <<>>,
                     <<AbstractFunc_for_import(DeclaredSig),
                       AbstractFunc_for_import(DeclaredSig)>>),
      AbstractModule(<<ImportF>>, <<Export("d", "Func", 1), Export("s", "Memory", 0)>>,
                     <<AbstractMemory(FALSE, TRUE, 1, MaxPages),
                       AbstractMemory(FALSE, FALSE, 1, MaxPages)>>,
                     <<AbstractFunc_for_import(DeclaredSig),
                       AbstractFunc(FALSE, "d", 1, DeclaredSig)>>),
      AbstractModule(<<Import("env", "t", "Table", 0)>>, <<>>, <<>>, <<>>) }

\* one allocator answer for each memory slot of a module
AllocSeqs(n) == [1..n -> AllocInputs]

\* the functions a host may hand to a MockImportModule: the mocks
MockFuncs == {x \in 1..Len(linked_heap) : linked_heap[x]._module = 0}

\* maps from a set of names to objects
FuncMaps == UNION {[names -> MockFuncs] : names \in SUBSET {"f"}}
MemoryMaps == UNION {[names -> 1..Len(mem_heap)] : names \in SUBSET {"m"}}

\* the host is still setting up: nothing aborted, instantiate not yet called
Running == link_ret.st # "abort" /\ link_ret.op # "instantiate"

\* LinkedFunc::create_mock(&env.types().sig(return_types, param_types))
CreateMock(return_types, param_types) ==
    /\ Running
    /\ Len(linked_heap) + Len(mem_heap) < MaxObjects
    /\ LET r == sig(Types, return_types, param_types) IN
       /\ sig_heap' = r.T.heap
       /\ _sigs' = r.T.sigs
       /\ sig_calls' = r.T.calls
       /\ unlinked_heap' = Append(unlinked_heap, UnlinkedFunc(r.ref, "", 0))
       /\ linked_heap' = Append(linked_heap, LinkedFunc(Len(unlinked_heap) + 1, 0))
    /\ UNCHANGED <<mem_heap, mod, ienv, instances, link_ret, cursor>>
    /\ UNCHANGED mem_vars

\* Memory::create_shared / Memory::create_unshared
CreateMemory(abstract, alloc) ==
    /\ Running
    /\ Len(linked_heap) + Len(mem_heap) < MaxObjects
    /\ LET o == MemoryCtor(abstract, alloc) IN
       /\ mem_heap' = (IF o.st = "ok" THEN Append(mem_heap, o.m) ELSE mem_heap)
       /\ link_ret' = (IF o.st = "abort" THEN [op |-> "Memory", st |-> "abort"]
                       ELSE link_ret)
    /\ UNCHANGED <<unlinked_heap, linked_heap, mod, ienv, instances, cursor>>
    /\ UNCHANGED type_vars
    /\ UNCHANGED mem_vars

\* ImportEnvironment::add_module(name, &module)
AddModule(name, module) ==
    /\ Running
    /\ ienv' = [n \in DOMAIN ienv \cup {name} |-> IF n = name THEN module ELSE ienv[n]]
    /\ UNCHANGED <<unlinked_heap, linked_heap, mem_heap, mod, instances, link_ret, cursor>>
    /\ UNCHANGED type_vars
    /\ UNCHANGED mem_vars

\* Module module(abstract, env)
ConstructModule(abstract, allocs) ==
    /\ Running
    /\ ~mod.built
    /\ \E o \in {ModuleCtor(Types, unlinked_heap, mem_heap, abstract, allocs)} :
       /\ sig_heap' = o.T.heap
       /\ _sigs' = o.T.sigs
       /\ sig_calls' = o.T.calls
       /\ unlinked_heap' = o.uh
       /\ mem_heap' = o.mh
       /\ mod' = o.module
       /\ link_ret' = (IF o.st = "abort" THEN [op |-> "Module", st |-> "abort"]
                       ELSE link_ret)
    /\ UNCHANGED <<linked_heap, ienv, instances, cursor>>
    /\ UNCHANGED mem_vars

\* the Import a LinkError carries
NoImport == Import("", "", "Func", 0)

\* ModuleInstance::instantiate(module, imports)
Instantiate(allocs) ==
    /\ Running
    /\ mod.built
    /\ \E o \in {instantiate(mod, ienv, unlinked_heap, linked_heap, mem_heap,
                             Len(instances) + 1, allocs)} :
       /\ linked_heap' = o.lh
       /\ mem_heap' = o.mh
       /\ instances' = (IF o.st = "ok" THEN Append(instances, o.inst) ELSE instances)
       /\ link_ret' = [op |-> "instantiate", st |-> o.st, at |-> o.at, what |-> o.what,
                       import |-> (IF o.st = "LinkError" THEN mod._imports[o.at]
                                   ELSE NoImport),
                       lookups |-> o.lookups,
                       instance |-> (IF o.st = "ok" THEN Len(instances) + 1 ELSE 0)]
    /\ UNCHANGED <<unlinked_heap, mod, ienv, cursor>>
    /\ UNCHANGED type_vars
    /\ UNCHANGED mem_vars

(***************************************************************************)
(* The calls of a host that goes on after its first instantiate: it        *)
(* instantiates again, offers instances as import modules and builds       *)
(* further modules.                                                        *)
(***************************************************************************)
\* a module that imports env.f and exports a function and two memories of
\* its own, one of them under the name it imports
ChainModule ==
    AbstractModule(<<ImportF>>,
                   <<Export("f", "Func", 1), Export("m", "Memory", 0),
                     Export("s", "Memory", 1)>>,
                   <<AbstractMemory(FALSE, FALSE, 1, MaxPages),
                     AbstractMemory(FALSE, TRUE, 1, MaxPages)>>,
                   <<AbstractFunc_for_import(DeclaredSig),
                     AbstractFunc(FALSE, "d", 1, DeclaredSig)>>)

\* a module that imports as a function the name ChainModule exports as a memory
ClashModule ==
    AbstractModule(<<Import("env", "m", "Func", 0)>>, <<>>, <<>>,
                   <<AbstractFunc_for_import(DeclaredSig)>>)

\* a module that imports a memory ChainModule exports, and then as a memory
\* the name ChainModule exports as a function
TwoImportModule ==
    AbstractModule(<<ImportM, Import("env", "f", "Memory", 1)>>, <<>>,
                   <<AbstractMemory_for_import(FALSE, 1, MaxPages),
                     AbstractMemory_for_import(FALSE, 1, MaxPages)>>, <<>>)

EmptyModule == AbstractModule(<<>>, <<>>, <<>>, <<>>)

ExportingModules == {ChainModule, ClashModule, TwoImportModule, EmptyModule}

\* allocator answers for the slots Module::Module allocates (the defined
\* shared memories) and for the ones instantiate allocates (the defined
\* unshared ones); the other slots never reach the allocator
SharedAllocSeqs(memories) ==
    {allocs \in AllocSeqs(Len(memories)) :
        \A k \in 1..Len(memories) :
            \/ memories[k].is_shared /\ ~memories[k].is_import
            \/ allocs[k] = CHOOSE a \in AllocInputs : a.ok}
UnsharedAllocSeqs(memories) ==
    {allocs \in AllocSeqs(Len(memories)) :
        \A k \in 1..Len(memories) :
            \/ ~memories[k].is_shared /\ ~memories[k].is_import
            \/ allocs[k] = CHOOSE a \in AllocInputs : a.ok}

\* the import modules a host can offer: mocks and the instances made so far
OfferedModules ==
    {MockImportModule(fm, mm) : fm \in FuncMaps, mm \in MemoryMaps}
        \cup {InstanceModule(i) : i \in 1..Len(instances)}

\* nothing aborted, and instantiate has been called before
Relinking == link_ret.st # "abort" /\ link_ret.op = "instantiate"

\* ImportEnvironment::add_module(name, &module) after an instantiate
AddModuleLater(name, module) ==
    /\ Relinking
    /\ ienv' = [n \in DOMAIN ienv \cup {name} |-> IF n = name THEN module ELSE ienv[n]]
    /\ UNCHANGED <<unlinked_heap, linked_heap, mem_heap, mod, instances, link_ret, cursor>>
    /\ UNCHANGED type_vars
    /\ UNCHANGED mem_vars

\* module = Module(abstract, env) after an instantiate; the Module there
\* was is destroyed, the objects it shares with instances stay
ConstructModuleLater(abstract, allocs) ==
    /\ Relinking
    /\ \E o \in {ModuleCtor(Types, unlinked_heap, mem_heap, abstract, allocs)} :
       /\ Len(o.uh) <= MaxObjects
       /\ sig_heap' = o.T.heap
       /\ _sigs' = o.T.sigs
       /\ sig_calls' = o.T.calls
       /\ unlinked_heap' = o.uh
       /\ mem_heap' = o.mh
       /\ mod' = (IF o.st = "ok" THEN o.module ELSE mod)
       /\ link_ret' = (IF o.st = "abort" THEN [op |-> "Module", st |-> "abort"]
                       ELSE link_ret)
    /\ UNCHANGED <<linked_heap, ienv, instances, cursor>>
    /\ UNCHANGED mem_vars

\* instantiate called again, with the instance handed out before its
\* imports are resolved
InstantiateLaterKeepsInstance(allocs) ==
    /\ Relinking
    /\ mod.built
    /\ Len(instances) < MaxInstances
    /\ \E o \in {instantiate(mod, ienv, unlinked_heap, linked_heap, mem_heap,
                             Len(instances) + 1, allocs)} :
       /\ linked_heap' = o.lh
       /\ mem_heap' = o.mh
       /\ instances' = Append(instances, o.inst)
       /\ link_ret' = [op |-> "instantiate", st |-> o.st, at |-> o.at, what |-> o.what,
                       import |-> (IF o.st = "LinkError" THEN mod._imports[o.at]
                                   ELSE NoImport),
                       lookups |-> o.lookups,
                       instance |-> (IF o.st = "ok" THEN Len(instances) + 1 ELSE 0),
                       before |-> link_ret.st]
    /\ UNCHANGED <<unlinked_heap, mod, ienv, cursor>>
    /\ UNCHANGED type_vars
    /\ UNCHANGED mem_vars

\* ModuleInstance::instantiate(module, imports) after an earlier call;
\* before is how that call ended
InstantiateLater(allocs) ==
    /\ Relinking
    /\ mod.built
    /\ Len(instances) < MaxInstances
    /\ \E o \in {instantiate(mod, ienv, unlinked_heap, linked_heap, mem_heap,
                             Len(instances) + 1, allocs)} :
       /\ linked_heap' = o.lh
       /\ mem_heap' = o.mh
       /\ instances' = (IF o.st = "ok" THEN Append(instances, o.inst) ELSE instances)
       /\ link_ret' = [op |-> "instantiate", st |-> o.st, at |-> o.at, what |-> o.what,
                       import |-> (IF o.st = "LinkError" THEN mod._imports[o.at]
                                   ELSE NoImport),
                       lookups |-> o.lookups,
                       instance |-> (IF o.st = "ok" THEN Len(instances) + 1 ELSE 0),
                       before |-> link_ret.st]
    /\ UNCHANGED <<unlinked_heap, mod, ienv, cursor>>
    /\ UNCHANGED type_vars
    /\ UNCHANGED mem_vars

TypeInit ==
    /\ sig_heap = <<>>
    /\ _sigs = <<>>
    /\ sig_calls = {}

MemIdle ==
    /\ mstatus = "none"
    /\ mem = NoMemory
    /\ ret = [op |-> "none", st |-> "none"]
    /\ stored = {}

InitTypes == TypeInit /\ MemIdle /\ LinkIdle

NextTypes == \E r \in TypeSeqs, p \in TypeSeqs : Sig(r, p)

SpecTypes == InitTypes /\ [][NextTypes]_vars

InitLink == TypeInit /\ MemIdle /\ LinkIdle

NextLink ==
    \/ \E s \in SuppliedSigs : CreateMock(s.return_types, s.param_types)
    \/ \E d \in SuppliedMemories, alloc \in AllocInputs : CreateMemory(d, alloc)
    \/ \E fm \in FuncMaps, mm \in MemoryMaps : AddModule("env", MockImportModule(fm, mm))
    \/ \E a \in AbstractModules : \E allocs \in AllocSeqs(Len(a._memories)) :
          ConstructModule(a, allocs)
    \/ \E allocs \in AllocSeqs(Len(mod._memories)) : Instantiate(allocs)

SpecLink == InitLink /\ [][NextLink]_vars

(***************************************************************************)
(* SpecInstances: a host that links modules with exports, more than once.  *)
(***************************************************************************)
NextInstances ==
    \/ CreateMock(DeclaredSig.return_types, DeclaredSig.param_types)
    \/ \E fm \in FuncMaps, mm \in MemoryMaps : AddModule("env", MockImportModule(fm, mm))
    \/ \E a \in ExportingModules : \E allocs \in SharedAllocSeqs(a._memories) :
          ConstructModule(a, allocs)
    \/ \E allocs \in UnsharedAllocSeqs(mod._memories) : Instantiate(allocs)
    \/ \E module \in OfferedModules : AddModuleLater("env", module)
    \/ \E a \in ExportingModules : \E allocs \in SharedAllocSeqs(a._memories) :
          ConstructModuleLater(a, allocs)
    \/ \E allocs \in UnsharedAllocSeqs(mod._memories) : InstantiateLater(allocs)

SpecInstances == InitLink /\ [][NextInstances]_vars



InitMemory == TypeInit /\ MemIdle /\ LinkIdle

(***************************************************************************)
(* SpecGrow: one memory under every construction and every grow, with a    *)
(* few stores and loads in between so that the region holds bytes.         *)
(***************************************************************************)
NextGrow ==
    \/ \E d \in Descriptors, alloc \in AllocInputs : Construct(d, alloc)
    \/ \E n \in GrowInputs :
          \E alloc \in AllocChoices(mem, AddSize(size_pages(mem), n)) : Grow(n, alloc)
    \/ \E addr \in {0, size(mem) - 1} \cap 0..WPTR_MAX :
          \E fault \in FaultInputs(mem, addr, 1) : Store(<<1, 2>>, addr, 1, fault)
    \/ \E fault \in FaultInputs(mem, 0, 2), junk \in JunkInputs(mem, 0, 2) :
          Load(0, 2, fault, junk)

SpecGrow == InitMemory /\ [][NextGrow]_vars

(***************************************************************************)
(* SpecCopy: one memory under every load and store, grown page by page up  *)
(* to MaxPages pages.                                                      *)
(***************************************************************************)
NextCopy ==
    \/ \E d \in Descriptors, alloc \in AllocInputs : Construct(d, alloc)
    \/ /\ size_pages(mem) < MaxPages
       /\ \E alloc \in AllocChoices(mem, AddSize(size_pages(mem), 1)) : Grow(1, alloc)
    \/ \E buf \in SrcBufs, addr \in AddrInputs(mem) : \E sz \in CopyLens(addr) :
          \E fault \in FaultInputs(mem, addr, sz) : Store(buf, addr, sz, fault)
    \/ \E addr \in AddrInputs(mem) : \E sz \in CopyLens(addr) :
          \E fault \in FaultInputs(mem, addr, sz), junk \in JunkInputs(mem, addr, sz) :
             Load(addr, sz, fault, junk)

SpecCopy == InitMemory /\ [][NextCopy]_vars

(***************************************************************************)
(* SpecAddress: one memory under every construction and every grow, with   *)
(* is_valid_address asked in each state.                                   *)
(***************************************************************************)
NextAddress ==
    \/ \E d \in Descriptors, alloc \in AllocInputs : Construct(d, alloc)
    \/ \E n \in GrowInputs :
          \E alloc \in AllocChoices(mem, AddSize(size_pages(mem), n)) : Grow(n, alloc)
    \/ \E addr \in QueryAddrs(mem) : \E sz \in QueryLens(mem, addr) : IsValidAddress(addr, sz)

SpecAddress == InitMemory /\ [][NextAddress]_vars

(***************************************************************************)
(* SpecRound: one memory under store<T> and load<T> of 1, 2, 4 and 8 byte  *)
(* values, with grows in between.                                          *)
(***************************************************************************)
NextRound ==
    \/ \E d \in RoundDescriptors, alloc \in AllocInputs : Construct(d, alloc)
    \/ /\ size_pages(mem) < MaxPages
       /\ \E alloc \in AllocChoices(mem, AddSize(size_pages(mem), 1)) : Grow(1, alloc)
    \/ \E buf \in TypedBufs : \E addr \in TypedAddrs(mem, Len(buf)) :
          \E fault \in FaultInputs(mem, addr, Len(buf)) : StoreT(buf, addr, fault)
    \/ \E buf \in ZeroBufs : \E addr \in TypedAddrs(mem, Len(buf)) :
          \E fault \in FaultInputs(mem, addr, Len(buf)), junk \in JunkInputs(mem, addr, Len(buf)) :
             LoadT(buf, addr, fault, junk)

SpecRound == InitMemory /\ [][NextRound]_vars

(***************************************************************************)
(* C1: within one TypeTable, two sig() calls made at any two points return *)
(* the same reference exactly when their return-type and parameter-type    *)
(* sequences are equal, and every reference ever returned still points at  *)
(* a FuncSig holding the sequences it was returned for.                    *)
(***************************************************************************)
C1_InternOneToOne ==
    /\ \A c \in sig_calls, d \in sig_calls :
          (c.ref = d.ref) <=>
              (c.return_types = d.return_types /\ c.param_types = d.param_types)
    /\ \A c \in sig_calls :
          /\ c.ref \in 1..Len(sig_heap)
          /\ sig_heap[c.ref] = FuncSig(c.return_types, c.param_types)

\* Three distinct signatures interned, two of them differing only in the
\* funcref's extra pointer and two only in the parameter list.
C1_Witness ==
    /\ Len(_sigs) = 3
    /\ \E c \in sig_calls, d \in sig_calls, e \in sig_calls :
          /\ c.ref # d.ref /\ d.ref # e.ref /\ c.ref # e.ref
          /\ c.return_types = <<func_ref(0)>> /\ d.return_types = <<func_ref(1)>>
          /\ c.param_types = d.param_types
          /\ e.return_types = c.return_types /\ e.param_types # c.param_types

(***************************************************************************)
(* C2: in every state of a constructed memory, after any construction the  *)
(* constructor accepts and any grows,                                      *)
(*     size_pages <= current_capacity_pages <= max_capacity_pages.         *)
(***************************************************************************)
C2_SizeWithinCapacity ==
    mstatus = "live" =>
        /\ size_pages(mem) <= current_capacity_pages(mem)
        /\ current_capacity_pages(mem) <= max_capacity_pages(mem)

(***************************************************************************)
(* C3: no grow, load or store on a memory makes its size smaller, in bytes *)
(* or in pages.                                                            *)
(***************************************************************************)
C3_SizeNeverDecreases ==
    [][ mstatus = "live" =>
          /\ size(mem') >= size(mem)
          /\ size_pages(mem') >= size_pages(mem) ]_vars

\* A grow has just made a memory that holds stored bytes larger.
C3_Witness ==
    /\ mstatus = "live"
    /\ ret.op = "grow" /\ ret.st = "ret" /\ ret.val # WASM_ALLOCATE_FAILURE
    /\ size_pages(mem) > ret.val
    /\ DOMAIN mem.region # {}

(***************************************************************************)
(* C4: on an unshared memory grow(n), n >= 1, returns GROW_FAILURE when    *)
(* size_pages + n overflows the page count or exceeds max_capacity_pages.  *)
(* Otherwise, if the capacity after the call covers the new size, it       *)
(* returns the size in pages before the call and the size after it is the  *)
(* previous size plus n; with a finite max the capacity always covers it.  *)
(***************************************************************************)
C4_GrowUnshared ==
    [][ (mstatus = "live" /\ ret'.op = "grow" /\ ~is_shared(mem)) =>
          \A n \in GrowInputs \ {0}, alloc \in AllocInputs :
             Grow(n, alloc) =>
                LET old == size_pages(mem) IN
                IF old + n > SIZE_MAX \/ old + n > max_capacity_pages(mem)
                THEN ret'.st = "ret" /\ ret'.val = WASM_ALLOCATE_FAILURE
                ELSE /\ max_capacity_pages(mem) # WASM_UNLIMITED_PAGES =>
                            current_capacity_pages(mem') >= old + n
                     /\ current_capacity_pages(mem') >= old + n =>
                            /\ ret'.st = "ret" /\ ret'.val = old
                            /\ size_pages(mem') = old + n
                            /\ mstatus' = "live" ]_vars

\* A grow has just taken an unshared memory with a finite max from one page
\* to exactly its max and returned 1.
C4_Witness ==
    /\ mstatus = "live" /\ ~is_shared(mem)
    /\ ret.op = "grow" /\ ret.st = "ret" /\ ret.val = 1
    /\ size_pages(mem) = max_capacity_pages(mem)
    /\ size_pages(mem) > 1

(***************************************************************************)
(* C5: a grow that returns GROW_FAILURE leaves the memory exactly as it    *)
(* was: the whole memory (size in bytes, current capacity, max capacity,   *)
(* flags, start and every byte of the region) is equal before and after    *)
(* the call and the memory stays usable.  A later grow that fits still     *)
(* succeeds: when the call before was a failing grow, a grow(n), n >= 1,   *)
(* whose new size is within max_capacity_pages, and that the capacity      *)
(* covers or the allocator serves, returns the size in pages before it and *)
(* makes the size the previous size plus n.                                *)
(***************************************************************************)
C5_FailedGrowChangesNothing ==
    /\ [][ (mstatus = "live" /\ ret'.op = "grow" /\ ret'.st = "ret"
              /\ ret'.val = WASM_ALLOCATE_FAILURE) =>
             (mem' = mem /\ mstatus' = "live") ]_vars
    /\ [][ (/\ mstatus = "live"
            /\ ret.op = "grow" /\ ret.st = "ret" /\ ret.val = WASM_ALLOCATE_FAILURE) =>
             \A n \in GrowInputs \ {0}, alloc \in AllocInputs :
                LET old == size_pages(mem) IN
                ( /\ Grow(n, alloc)
                  /\ old + n <= SIZE_MAX
                  /\ old + n <= max_capacity_pages(mem)
                  /\ \/ old + n <= current_capacity_pages(mem)
                     \/ old + n < PageLimit /\ alloc.ok ) =>
                   /\ ret'.st = "ret" /\ ret'.val = old
                   /\ ret'.after_failure
                   /\ size_pages(mem') = old + n
                   /\ mstatus' = "live" ]_vars

\* A grow has just succeeded right after a grow that failed on the same
\* memory: the memory holds stored bytes, and the grow that fits returned the
\* size in pages the failed one had left and made the memory larger.
C5_Witness ==
    /\ mstatus = "live"
    /\ ret.op = "grow" /\ ret.st = "ret" /\ ret.val # WASM_ALLOCATE_FAILURE
    /\ ret.after_failure
    /\ ret.new_pages >= 1
    /\ size_pages(mem) = ret.val + ret.new_pages
    /\ DOMAIN mem.region # {}

(***************************************************************************)
(* C6: grow(0) returns the current size in pages and changes nothing, in   *)
(* every state of the memory, shared or unshared.                          *)
(***************************************************************************)
C6_GrowZero ==
    [][ (mstatus = "live" /\ ret'.op = "grow") =>
          \A alloc \in AllocInputs :
             Grow(0, alloc) =>
                /\ ret'.st = "ret" /\ ret'.val = size_pages(mem)
                /\ mem' = mem
                /\ mstatus' = "live" ]_vars

\* grow(0) has just returned on a shared memory that is at its max size
\* (any other grow on a shared memory aborts).
C6_Witness ==
    /\ mstatus = "live" /\ is_shared(mem)
    /\ ret.op = "grow" /\ ret.st = "ret" /\ ret.val = size_pages(mem)
    /\ size_pages(mem) = max_capacity_pages(mem)
    /\ size_pages(mem) > 0

(***************************************************************************)
(* C7: grow(n), n # 0, on a shared memory is a fatal violation: it returns *)
(* no value and leaves size and capacity alone; a shared memory's size and *)
(* capacity are those of its construction in every reachable state.        *)
(***************************************************************************)
C7_SharedGrowRefused ==
    /\ [][ (mstatus = "live" /\ is_shared(mem)) =>
             /\ size(mem') = size(mem)
             /\ current_capacity_pages(mem') = current_capacity_pages(mem)
             /\ \A n \in GrowInputs \ {0}, alloc \in AllocInputs :
                   Grow(n, alloc) => (mstatus' = "aborted" /\ ret'.st = "abort") ]_vars
    /\ [](  (mstatus \in {"live", "aborted", "segv"} /\ is_shared(mem)) =>
             /\ size(mem) = ShiftLeftPage(initial_size_pages(mem))
             /\ current_capacity_pages(mem) = max_capacity_pages(mem) )

\* A grow on a shared memory below its max has just aborted.
C7_Witness ==
    /\ mstatus = "aborted" /\ is_shared(mem)
    /\ ret.op = "grow" /\ ret.st = "abort"
    /\ size_pages(mem) < max_capacity_pages(mem)

(***************************************************************************)
(* C8: is_valid_address(addr, length) is true exactly when addr + length   *)
(* does not exceed the largest size_t and is <= the size in bytes; so      *)
(* (size, 0) is valid, (size + 1, 0) is not and (1, max size_t) is not.    *)
(***************************************************************************)
C8_IsValidAddress ==
    ret.op = "is_valid_address" =>
        /\ ret.val <=> (ret.addr + ret.size <= SIZE_MAX /\ ret.addr + ret.size <= size(mem))
        /\ (ret.addr = size(mem) /\ ret.size = 0) => ret.val
        /\ (ret.addr = size(mem) + 1 /\ ret.size = 0) => ~ret.val
        /\ (ret.addr = 1 /\ ret.size = SIZE_MAX) => ~ret.val

\* is_valid_address has just refused an (addr, length) whose sum wraps
\* around to a value inside the memory.
C8_Witness ==
    /\ ret.op = "is_valid_address" /\ ~ret.val
    /\ ret.addr + ret.size > SIZE_MAX
    /\ AddSize(ret.addr, ret.size) <= size(mem)
    /\ size(mem) > 0
    /\ size_pages(mem) <= current_capacity_pages(mem)

(***************************************************************************)
(* C9: for every (addr, length) that is_valid_address accepts, load and    *)
(* store return true, and store changes only the bytes in                  *)
(* [addr, addr + length): the other bytes, the size and the capacities are *)
(* unchanged.                                                              *)
(***************************************************************************)
C9_ValidAccessSucceeds ==
    [][ (mstatus = "live" /\ ret'.op \in {"load", "store"}) =>
          \A addr \in AddrInputs(mem) : \A sz \in CopyLens(addr) :
             is_valid_address(mem, addr, sz) =>
                /\ \A buf \in SrcBufs, fault \in BOOLEAN :
                      Store(buf, addr, sz, fault) =>
                         /\ ret'.st = "ret" /\ ret'.val = TRUE
                         /\ \A a \in DOMAIN mem.region \cup DOMAIN mem'.region :
                               a \notin addr..(addr + sz - 1) =>
                                  Byte(mem'.region, a) = Byte(mem.region, a)
                         /\ size(mem') = size(mem)
                         /\ current_capacity_pages(mem') = current_capacity_pages(mem)
                         /\ max_capacity_pages(mem') = max_capacity_pages(mem)
                /\ \A fault \in BOOLEAN, junk \in JunkSeqs :
                      Load(addr, sz, fault, junk) => (ret'.st = "ret" /\ ret'.val = TRUE) ]_vars

(***************************************************************************)
(* C10: a load or store whose (addr, length) does not fit in the memory    *)
(* returns false, without a fatal violation, and leaves every byte of the  *)
(* memory and, for load, the destination buffer unchanged.                 *)
(***************************************************************************)
C10_InvalidAccessRefused ==
    [][ (mstatus = "live" /\ ret'.op \in {"load", "store"}) =>
          \A addr \in AddrInputs(mem) : \A sz \in CopyLens(addr) :
             ~(addr + sz <= SIZE_MAX /\ addr + sz <= size(mem)) =>
                /\ \A buf \in SrcBufs, fault \in BOOLEAN :
                      Store(buf, addr, sz, fault) =>
                         (ret'.st = "ret" /\ ret'.val = FALSE /\ mem' = mem
                            /\ mstatus' = "live")
                /\ \A fault \in BOOLEAN, junk \in JunkSeqs :
                      Load(addr, sz, fault, junk) =>
                         (ret'.st = "ret" /\ ret'.val = FALSE /\ ret'.buf = DestBuf
                            /\ mem' = mem /\ mstatus' = "live") ]_vars

\* A store has just been refused on a memory that holds stored bytes.
C10_Witness ==
    /\ mstatus = "live"
    /\ ret.op = "store" /\ ret.st = "ret" /\ ret.val = FALSE
    /\ DOMAIN mem.region # {}

(***************************************************************************)
(* C11: a store<T> of a 1, 2, 4 or 8 byte value at an address valid for    *)
(* that width returns true, and a load<T> of the same width at that        *)
(* address yields the value for as long as no store has overlapped it,     *)
(* whatever grows, loads and other stores happen in between.               *)
(***************************************************************************)
C11_RoundTrip ==
    [][ (mstatus = "live" /\ ret'.op \in {"load", "store"}) =>
          /\ \A buf \in TypedBufs : \A addr \in TypedAddrs(mem, Len(buf)) :
                is_valid_address(mem, addr, Len(buf)) =>
                   \A fault \in BOOLEAN :
                      StoreT(buf, addr, fault) => (ret'.st = "ret" /\ ret'.val = TRUE)
          /\ \A r \in stored, fault \in BOOLEAN, junk \in JunkSeqs :
                LoadT([i \in 1..Len(r.buf) |-> 0], r.addr, fault, junk) =>
                   (ret'.st = "ret" /\ ret'.val = TRUE /\ ret'.buf = r.buf) ]_vars

\* The addresses in lo..(hi - 1) at which a byte could differ from 0: the
\* two ends, where the region holds a non-zero byte, and the block's end.
Probes(m, lo, hi) ==
    ({lo, hi - 1, ShiftLeftPage(current_capacity_pages(m))} \cup DOMAIN m.region)
        \cap lo..(hi - 1) \cap 0..WPTR_MAX

\* Every load of one byte in lo..(hi - 1) returns true and yields 0.
ReadsZero(m, lo, hi) ==
    \A a \in Probes(m, lo, hi), fault \in BOOLEAN, junk \in JunkSeqs :
       load(m, <<3>>, a, 1, fault, junk) = [st |-> "ret", val |-> TRUE, buf |-> <<0>>]

(***************************************************************************)
(* C12: right after construction every byte in [0, size) reads as 0, and   *)
(* right after a successful grow every byte in [previous size, new size)   *)
(* reads as 0, whatever stores and grows happened before.                  *)
(***************************************************************************)
C12_NewBytesZero ==
    [][ /\ (mstatus = "none" /\ mstatus' = "live") => ReadsZero(mem', 0, size(mem'))
        /\ (mstatus = "live" /\ ret'.op = "grow" /\ ret'.st = "ret"
               /\ size(mem') > size(mem)) =>
              ReadsZero(mem', size(mem), size(mem')) ]_vars

\* (addr, length) pairs that do not depend on the memory's state: around
\* each page boundary, and lengths up to the largest size_t.
FixedAddrs ==
    UNION {{k * WASM_PAGE_SIZE - 4, k * WASM_PAGE_SIZE - 3, k * WASM_PAGE_SIZE,
            k * WASM_PAGE_SIZE + 1} : k \in 0..MaxPages} \cap 0..WPTR_MAX
FixedLens ==
    ({0, 1, 4, SIZE_MAX} \cup {k * WASM_PAGE_SIZE : k \in 1..MaxPages}) \cap 0..SIZE_MAX

(***************************************************************************)
(* C13: an (addr, length) that is_valid_address accepts on a memory is     *)
(* accepted on that memory ever after: no grow, load or store turns a      *)
(* valid (addr, length) into an invalid one.                               *)
(***************************************************************************)
C13_ValidStaysValid ==
    [][ (mstatus = "live" /\ mstatus' = "live") =>
          \A addr \in FixedAddrs, sz \in FixedLens :
             is_valid_address(mem, addr, sz) => is_valid_address(mem', addr, sz) ]_vars

\* A grow has just made a memory of at least one page larger: the last four
\* bytes of its first page were valid before and are valid now.
C13_Witness ==
    /\ mstatus = "live"
    /\ ret.op = "grow" /\ ret.st = "ret" /\ ret.val # WASM_ALLOCATE_FAILURE
    /\ ret.val >= 1 /\ size_pages(mem) > ret.val
    /\ size_pages(mem) <= current_capacity_pages(mem)
    /\ is_valid_address(mem, WASM_PAGE_SIZE - 4, 4)

(***************************************************************************)
(* C14: a memory constructed with a finite max_pages, shared or unshared,  *)
(* has current_capacity_pages = max_capacity_pages in every state from its *)
(* construction on, and no call moves its backing region: the base pointer *)
(* never changes.                                                          *)
(***************************************************************************)
C14_FiniteMaxNeverMoves ==
    /\ []( (mstatus = "live" /\ max_capacity_pages(mem) # WASM_UNLIMITED_PAGES) =>
              is_at_max_capacity(mem) )
    /\ [][ (mstatus = "live" /\ max_capacity_pages(mem) # WASM_UNLIMITED_PAGES) =>
              /\ mem'.start = mem.start
              /\ current_capacity_pages(mem') = current_capacity_pages(mem) ]_vars

\* A grow has just made an unshared memory with a finite max larger, after
\* bytes were stored in it.
C14_Witness ==
    /\ mstatus = "live" /\ ~is_shared(mem)
    /\ max_capacity_pages(mem) # WASM_UNLIMITED_PAGES
    /\ ret.op = "grow" /\ ret.st = "ret" /\ ret.val # WASM_ALLOCATE_FAILURE
    /\ size_pages(mem) > ret.val
    /\ mem.start # 0
    /\ DOMAIN mem.region # {}

(***************************************************************************)
(* C15: on an unshared memory with unlimited max, grow(n) returns          *)
(* GROW_FAILURE and leaves the memory unchanged whenever size_pages + n    *)
(* is a page count that fits but whose size in bytes,                      *)
(* (size_pages + n) * 65536, does not fit in size_t.                       *)
(***************************************************************************)
C15_ByteSizeOverflowRefused ==
    [][ (/\ mstatus = "live" /\ ret'.op = "grow" /\ ~is_shared(mem)
         /\ max_capacity_pages(mem) = WASM_UNLIMITED_PAGES) =>
          \A n \in GrowInputs \ {0}, alloc \in AllocInputs :
             LET new == size_pages(mem) + n IN
             (Grow(n, alloc) /\ new <= SIZE_MAX /\ new >= PageLimit) =>
                /\ ret'.st = "ret" /\ ret'.val = WASM_ALLOCATE_FAILURE
                /\ mem' = mem
                /\ mstatus' = "live" ]_vars

\* A grow of a one-page memory with unlimited max has just been refused for
\* a page count that fits in size_t while its size in bytes does not.
C15_Witness ==
    /\ mstatus = "live" /\ ~is_shared(mem)
    /\ max_capacity_pages(mem) = WASM_UNLIMITED_PAGES
    /\ ret.op = "grow" /\ ret.st = "ret" /\ ret.val = WASM_ALLOCATE_FAILURE
    /\ size_pages(mem) >= 1
    /\ size_pages(mem) + ret.new_pages <= SIZE_MAX
    /\ size_pages(mem) + ret.new_pages >= PageLimit

(***************************************************************************)
(* C16: in every reachable state size_pages is strictly less than the      *)
(* GROW_FAILURE sentinel, so a grow that succeeds (grow(0), or a grow that *)
(* changes the size) never returns the sentinel.                           *)
(***************************************************************************)
C16_SentinelNeverASize ==
    /\ []( mstatus = "live" => size_pages(mem) < WASM_ALLOCATE_FAILURE )
    /\ [][ (mstatus = "live" /\ ret'.op = "grow" /\ ret'.st = "ret"
              /\ (ret'.new_pages = 0 \/ size(mem') # size(mem))) =>
             ret'.val # WASM_ALLOCATE_FAILURE ]_vars

\* grow(0) has just returned 0 on an empty memory, and a grow has just
\* returned a non-zero old size.
C16_Witness ==
    /\ mstatus = "live"
    /\ ret.op = "grow" /\ ret.st = "ret" /\ ret.new_pages = 0
    /\ ret.val = 0 /\ size_pages(mem) = 0
    /\ max_capacity_pages(mem) = WASM_UNLIMITED_PAGES

(***************************************************************************)
(* C17.  A function import is accepted by instantiate exactly when the     *)
(* environment supplies a linked function whose interned signature has the *)
(* return-type and parameter-type sequences the import declares; when it   *)
(* is refused (no function, or any difference in the sequences) the        *)
(* LinkError's import field is the module's import descriptor.             *)
(***************************************************************************)
\* the function the environment answers the import with has the declared sequences
SuppliesDeclared(import) ==
    LET func == find_func(ienv, import).val IN
    /\ func # 0
    /\ sig_heap[signature(unlinked_heap, linked_heap, func)].return_types
           = DeclaredSig.return_types
    /\ sig_heap[signature(unlinked_heap, linked_heap, func)].param_types
           = DeclaredSig.param_types

\* instantiate threw a LinkError while resolving the k-th import
RefusedAt(k) == link_ret.st = "LinkError" /\ link_ret.at = k

C17_FuncImportAccepted ==
    (link_ret.op = "instantiate" /\ link_ret.st # "abort") =>
        \A k \in 1..Len(link_ret.lookups) :
            mod._imports[k].type = "Func" =>
                /\ SuppliesDeclared(mod._imports[k]) <=> ~RefusedAt(k)
                /\ RefusedAt(k) =>
                      /\ link_ret.import = mod._imports[k]
                      /\ link_ret.import \in {ImportF, ImportF1}

\* a function with an F32 result offered for the import declared with I32:
\* refused with the import's descriptor
C17_Witness ==
    /\ link_ret.op = "instantiate"
    /\ link_ret.st = "LinkError"
    /\ link_ret.import = ImportF
    /\ find_func(ienv, ImportF).val # 0
    /\ sig_heap[signature(unlinked_heap, linked_heap, find_func(ienv, ImportF).val)]
          = FuncSig(<<f32>>, <<i32>>)

(***************************************************************************)
(* C18.  When instantiate has satisfied a function or memory import, the   *)
(* instance's slot at the import's index holds the very object the         *)
(* environment supplied (the same address, not a copy), and the entry of   *)
(* func_table / memory_table at that index is the address of that object's *)
(* internal record.                                                        *)
(***************************************************************************)
C18_ImportedObjectIdentity ==
    (link_ret.op = "instantiate" /\ link_ret.st = "ok") =>
        LET inst == instances[link_ret.instance] IN
        \A k \in 1..Len(mod._imports) :
            LET i == mod._imports[k] IN
            /\ i.type = "Func" =>
                  /\ find_func(ienv, i).val \in 1..Len(linked_heap)
                  /\ inst._funcs[i.idx + 1] = find_func(ienv, i).val
                  /\ inst._internal.func_table[i.idx + 1]
                        = internal("LinkedFuncInternal", find_func(ienv, i).val)
            /\ i.type = "Memory" =>
                  /\ find_memory(ienv, i).val \in 1..Len(mem_heap)
                  /\ inst._memories[i.idx + 1] = find_memory(ienv, i).val
                  /\ inst._internal.memory_table[i.idx + 1]
                        = internal("MemoryInternal", find_memory(ienv, i).val)

\* a module importing a memory and a function has been instantiated and
\* its two slots hold the objects the environment answers with
C18_Witness ==
    /\ link_ret.op = "instantiate"
    /\ link_ret.st = "ok"
    /\ mod._imports = <<ImportM, ImportF>>
    /\ instances[link_ret.instance]._funcs = <<find_func(ienv, ImportF).val>>
    /\ instances[link_ret.instance]._memories = <<find_memory(ienv, ImportM).val>>
    /\ find_func(ienv, ImportF).val # 0
    /\ find_memory(ienv, ImportM).val # 0

(***************************************************************************)
(* C19.  A memory import is accepted by instantiate exactly when the       *)
(* memory supplied has the shared flag of the import's descriptor, an      *)
(* initial size of at least the descriptor's initial_pages and a maximum   *)
(* capacity of at most the descriptor's max_pages, an unlimited maximum    *)
(* being above every finite one; an absent memory or a violated condition  *)
(* raises a LinkError that carries the import descriptor.                  *)
(***************************************************************************)
\* a maximum of a pages is within a maximum of b pages, unlimited being the
\* absence of a maximum
WithinMax(a, b) ==
    \/ b = WASM_UNLIMITED_PAGES
    \/ a # WASM_UNLIMITED_PAGES /\ a <= b

\* the memory the environment answers the import with fits the descriptor
SuppliesFitting(import) ==
    LET m == find_memory(ienv, import).val
        want == mod._memories[import.idx + 1]
    IN /\ m # 0
       /\ is_shared(mem_heap[m]) = want.is_shared
       /\ initial_size_pages(mem_heap[m]) >= want.initial_pages
       /\ WithinMax(max_capacity_pages(mem_heap[m]), want.max_pages)

C19_MemoryImportAccepted ==
    (link_ret.op = "instantiate" /\ link_ret.st # "abort") =>
        \A k \in 1..Len(link_ret.lookups) :
            mod._imports[k].type = "Memory" =>
                /\ SuppliesFitting(mod._imports[k]) <=> ~RefusedAt(k)
                /\ RefusedAt(k) =>
                      /\ link_ret.import = mod._imports[k]
                      /\ link_ret.import = ImportM

\* a memory without a maximum offered for an import with a finite one
C19_Witness ==
    /\ link_ret.op = "instantiate"
    /\ link_ret.st = "LinkError"
    /\ link_ret.import = ImportM
    /\ find_memory(ienv, ImportM).val # 0
    /\ max_capacity_pages(mem_heap[find_memory(ienv, ImportM).val]) = WASM_UNLIMITED_PAGES
    /\ initial_size_pages(mem_heap[find_memory(ienv, ImportM).val]) = 1
    /\ mod._memories[1] = AbstractMemory_for_import(FALSE, 1, MaxPages)

(***************************************************************************)
(* C20.  Imports are resolved in declaration order: when the environment   *)
(* cannot satisfy some imports of the module, instantiate raises a         *)
(* LinkError that carries the first of them in declaration order, and the  *)
(* imports looked up are exactly the ones declared up to and including it. *)
(***************************************************************************)
\* the positions of the imports the environment cannot satisfy
Offending ==
    {k \in 1..Len(mod._imports) :
        \/ mod._imports[k].type = "Func" /\ ~SuppliesDeclared(mod._imports[k])
        \/ mod._imports[k].type = "Memory" /\ ~SuppliesFitting(mod._imports[k])}

FirstOffending == CHOOSE k \in Offending : \A j \in Offending : k <= j

C20_FirstOffendingImport ==
    (link_ret.op = "instantiate" /\ link_ret.st # "abort" /\ Offending # {}) =>
        /\ link_ret.st = "LinkError"
        /\ link_ret.import = mod._imports[FirstOffending]
        /\ link_ret.lookups = SubSeq(mod._imports, 1, FirstOffending)

\* neither import of a two-import module can be satisfied, and the second
\* declared was never looked up
C20_Witness ==
    /\ link_ret.op = "instantiate"
    /\ link_ret.st = "LinkError"
    /\ mod._imports = <<ImportM, ImportF>>
    /\ Offending = {1, 2}
    /\ find_func(ienv, ImportF).val # 0
    /\ link_ret.import = ImportM
    /\ link_ret.lookups = <<ImportM>>

(***************************************************************************)
(* C21.  When instantiate raises a LinkError no instance comes back and    *)
(* nothing but the exception is new: the Module and its tables, the type   *)
(* interner, the import environment and every function and memory object   *)
(* are as before the call, so a later instantiate starts from the state    *)
(* the failed one started from.                                            *)
(***************************************************************************)
C21_LinkErrorChangesNothing ==
    [][ (link_ret' # link_ret /\ link_ret'.op = "instantiate" /\ link_ret'.st = "LinkError")
            => /\ link_ret'.instance = 0
               /\ UNCHANGED <<sig_heap, _sigs, sig_calls, unlinked_heap, linked_heap,
                              mem_heap, mod, ienv, instances>> ]_vars

\* an instantiate that succeeded right after one that raised a LinkError;
\* the instance has the address the failed call would have used
C21_Witness ==
    /\ link_ret.op = "instantiate"
    /\ link_ret.st = "ok"
    /\ "before" \in DOMAIN link_ret
    /\ link_ret.before = "LinkError"
    /\ link_ret.instance = 1
    /\ Len(instances) = 1
    /\ Len(linked_heap) = 2

(***************************************************************************)
(* C22.  After every successful instantiate each function slot and each    *)
(* memory slot of the instance holds an object, the instance's lists and   *)
(* tables have the module's slot counts, and entry i of func_table /       *)
(* memory_table is the internal record of funcs[i] / memories[i]; for a    *)
(* module without imports, exports, functions and memories every list of   *)
(* the instance is empty.                                                  *)
(***************************************************************************)
\* the instance at address i is whole, for a module with nf function slots
\* and nm memory slots and objects on heaps of lhn and mhn entries
Populated(inst, nf, nm, lhn, mhn) ==
    /\ Len(inst._funcs) = nf
    /\ Len(inst._internal.func_table) = nf
    /\ Len(inst._memories) = nm
    /\ Len(inst._internal.memory_table) = nm
    /\ \A k \in 1..nf :
          /\ inst._funcs[k] \in 1..lhn
          /\ inst._internal.func_table[k] = internal("LinkedFuncInternal", inst._funcs[k])
    /\ \A k \in 1..nm :
          /\ inst._memories[k] \in 1..mhn
          /\ inst._internal.memory_table[k] = internal("MemoryInternal", inst._memories[k])

C22_InstanceFullyPopulated ==
    [][ instances' # instances =>
          LET inst == instances'[Len(instances')] IN
          /\ Len(instances') = Len(instances) + 1
          /\ link_ret'.st = "ok"
          /\ Populated(inst, Len(mod._funcs), Len(mod._memories),
                       Len(linked_heap'), Len(mem_heap'))
          /\ (mod._imports = <<>> /\ mod._exports = <<>> /\ mod._funcs = <<>>
                  /\ mod._memories = <<>>)
                => /\ inst._funcs = <<>>
                   /\ inst._memories = <<>>
                   /\ inst._exports = <<>>
                   /\ inst._owned_funcs = <<>>
                   /\ inst._internal.func_table = <<>>
                   /\ inst._internal.memory_table = <<>> ]_vars

\* an instance with imported and defined slots and an instance of the
\* empty module
C22_Witness ==
    /\ Len(instances) = 2
    /\ Len(instances[1]._funcs) = 2
    /\ Len(instances[1]._memories) = 2
    /\ Populated(instances[1], 2, 2, Len(linked_heap), Len(mem_heap))
    /\ instances[2]._funcs = <<>>
    /\ instances[2]._memories = <<>>
    /\ mod._funcs = <<>>

(***************************************************************************)
(* C23.  For every instance I built from a module M and every defined      *)
(* function slot i, I.funcs[i] is a linked function owned by I, whose      *)
(* unlinked function is the very object M.funcs[i] and whose module is I;  *)
(* it is a new object, so two instances of M have different linked         *)
(* functions at slot i that share the one unlinked function.               *)
(***************************************************************************)
C23_DefinedFuncsLinkedPerInstance ==
    [][ instances' # instances =>
          LET I == Len(instances')
              inst == instances'[I]
          IN /\ SubSeq(linked_heap', 1, Len(linked_heap)) = linked_heap
             /\ \A i \in 1..Len(mod._funcs) :
                  mod._funcs[i] # 0 =>
                     /\ inst._funcs[i] \in (Len(linked_heap) + 1)..Len(linked_heap')
                     /\ \E o \in 1..Len(inst._owned_funcs) :
                           inst._owned_funcs[o] = inst._funcs[i]
                     /\ linked_heap'[inst._funcs[i]]._unlinked = mod._funcs[i]
                     /\ linked_heap'[inst._funcs[i]]._module = I
                     /\ \A j \in 1..Len(mod._funcs) :
                           inst._funcs[j] = inst._funcs[i] => j = i ]_vars

\* two instances of one module: different linked functions at the defined
\* slot, one unlinked function
C23_Witness ==
    /\ Len(instances) = 2
    /\ Len(mod._funcs) = 2
    /\ mod._funcs[2] # 0
    /\ Len(instances[1]._funcs) = 2
    /\ Len(instances[2]._funcs) = 2
    /\ instances[1]._funcs[2] # instances[2]._funcs[2]
    /\ linked_heap[instances[1]._funcs[2]]._unlinked = mod._funcs[2]
    /\ linked_heap[instances[2]._funcs[2]]._unlinked = mod._funcs[2]
    /\ linked_heap[instances[1]._funcs[2]]._module = 1
    /\ linked_heap[instances[2]._funcs[2]]._module = 2

(***************************************************************************)
(* C24.  In every instance built from a Module the memory at a defined     *)
(* shared slot is the memory the Module allocated when it was constructed: *)
(* one object for all instances.                                           *)
(***************************************************************************)
DefinedShared(memory) == memory.is_shared /\ ~memory.is_import

C24_SharedMemoryIsModules ==
    [][ instances' # instances =>
          LET inst == instances'[Len(instances')] IN
          \A i \in 1..Len(mod._memories) :
              DefinedShared(mod._memories[i]) =>
                 /\ mod._shared_memories[i] \in 1..Len(mem_heap)
                 /\ inst._memories[i] = mod._shared_memories[i]
                 /\ mem_heap'[inst._memories[i]] = mem_heap[inst._memories[i]]
                 /\ is_shared(mem_heap'[inst._memories[i]]) ]_vars

\* two instances of one module hold the module's shared memory
C24_Witness ==
    /\ Len(instances) = 2
    /\ Len(mod._memories) = 2
    /\ DefinedShared(mod._memories[2])
    /\ Len(instances[1]._memories) = 2
    /\ Len(instances[2]._memories) = 2
    /\ instances[1]._memories[2] = mod._shared_memories[2]
    /\ instances[2]._memories[2] = mod._shared_memories[2]
    /\ instances[1]._funcs # instances[2]._funcs

(***************************************************************************)
(* C25.  In every instance the memory at a defined unshared slot is an     *)
(* object created by that instantiate call, so no other instance holds     *)
(* it, and it has the descriptor's initial size and maximum capacity.      *)
(***************************************************************************)
DefinedUnshared(memory) == ~memory.is_shared /\ ~memory.is_import

C25_UnsharedMemoryPerInstance ==
    [][ instances' # instances =>
          LET inst == instances'[Len(instances')] IN
          /\ \A i \in 1..Len(mod._memories) :
               DefinedUnshared(mod._memories[i]) =>
                  /\ inst._memories[i] \in (Len(mem_heap) + 1)..Len(mem_heap')
                  /\ \A j \in 1..Len(mod._memories) :
                        j # i => inst._memories[j] # inst._memories[i]
                  /\ \A k \in 1..Len(instances) : \A j \in 1..Len(instances[k]._memories) :
                        instances[k]._memories[j] # inst._memories[i]
                  /\ initial_size_pages(mem_heap'[inst._memories[i]])
                        = mod._memories[i].initial_pages
                  /\ size_pages(mem_heap'[inst._memories[i]])
                        = mod._memories[i].initial_pages
                  /\ max_capacity_pages(mem_heap'[inst._memories[i]])
                        = mod._memories[i].max_pages
                  /\ ~is_shared(mem_heap'[inst._memories[i]])
          /\ \A m \in 1..Len(mem_heap) : mem_heap'[m] = mem_heap[m] ]_vars

\* two instances of one module, each with a memory of its own at the
\* unshared slot
C25_Witness ==
    /\ Len(instances) = 2
    /\ Len(mod._memories) = 2
    /\ DefinedUnshared(mod._memories[1])
    /\ Len(instances[1]._memories) = 2
    /\ Len(instances[2]._memories) = 2
    /\ instances[1]._memories[2] = instances[2]._memories[2]
    /\ instances[1]._memories[1] # instances[2]._memories[1]
    /\ initial_size_pages(mem_heap[instances[2]._memories[1]]) = mod._memories[1].initial_pages
    /\ max_capacity_pages(mem_heap[instances[2]._memories[1]]) = mod._memories[1].max_pages

(***************************************************************************)
(* SpecLookup: a host that queries import modules itself.  It links as in  *)
(* SpecInstances, with an allocator that always succeeds, and then asks an *)
(* instance, a mock or an ImportMultiModule for an export.  A query reads  *)
(* the linker's objects and changes none of them, so the one query of a    *)
(* behaviour stands for a query made at that point of any longer run.      *)
(***************************************************************************)
\* the host goes on, linking or with its query: nothing aborted, no query
\* made yet
Asking == link_ret.st # "abort" /\ ret.op = "none"

\* the allocator answers of a host whose allocations all succeed
OkAllocSeqs(n) == [1..n -> {CHOOSE a \in AllocInputs : a.ok}]

\* the queries: names ChainModule exports as a function ("f") and as a
\* memory ("m") and a name nothing exports ("x"), as a function and as a
\* memory
LookupImports ==
    {Import("env", n, t, 0) : n \in {"f", "m", "x"}, t \in {"Func", "Memory"}}

\* mocks that supply one function under the names "f" and "m"
LookupMocks ==
    {MockImportModule([n \in {"f", "m"} |-> x], [n \in {} |-> 0]) : x \in MockFuncs}

\* the import modules queried: instances, mocks, and lists of two of them
SingleModules == {InstanceModule(i) : i \in 1..Len(instances)} \cup LookupMocks
LookupModules ==
    SingleModules \cup {ImportMultiModule(<<p[1], p[2]>>) :
                            p \in {q \in SingleModules \X SingleModules : q[1] # q[2]}}

\* module.find_func(import)
FindFunc(module, import) ==
    /\ Asking
    /\ \E o \in {ImportModule_find_func(module, import)} :
         ret' = [op |-> "find_func", st |-> o.st, found |-> o.val,
                 import |-> (IF o.st = "LinkError" THEN o.import ELSE NoImport)]
    /\ UNCHANGED <<mstatus, mem, stored>>
    /\ UNCHANGED type_vars
    /\ UNCHANGED link_vars

\* module.find_memory(import)
FindMemory(module, import) ==
    /\ Asking
    /\ \E o \in {ImportModule_find_memory(module, import)} :
         ret' = [op |-> "find_memory", st |-> o.st, found |-> o.val,
                 import |-> (IF o.st = "LinkError" THEN o.import ELSE NoImport)]
    /\ UNCHANGED <<mstatus, mem, stored>>
    /\ UNCHANGED type_vars
    /\ UNCHANGED link_vars

\* instance.find_export(import): found is the position of the Export
\* returned in the instance's export list, 0 for nullptr
FindExport(instance, import) ==
    /\ Asking
    /\ instance \in 1..Len(instances)
    /\ ret' = [op |-> "find_export", st |-> "ok",
               found |-> find_export(instances[instance], import), import |-> NoImport]
    /\ UNCHANGED <<mstatus, mem, stored>>
    /\ UNCHANGED type_vars
    /\ UNCHANGED link_vars

\* a module that imports a function under a name no module exports
MissingModule ==
    AbstractModule(<<Import("env", "x", "Func", 0)>>, <<>>, <<>>,
                   <<AbstractFunc_for_import(DeclaredSig)>>)


NextLookup ==
    \/ Asking /\ CreateMock(DeclaredSig.return_types, DeclaredSig.param_types)
    \/ Asking /\ \E fm \in FuncMaps : AddModule("env", MockImportModule(fm, [n \in {} |-> 0]))
    \/ Asking /\ \E a \in {ChainModule, EmptyModule} :
                     \E allocs \in OkAllocSeqs(Len(a._memories)) : ConstructModule(a, allocs)
    \/ Asking /\ \E allocs \in OkAllocSeqs(Len(mod._memories)) : Instantiate(allocs)
    \/ Asking /\ \E i \in 1..Len(instances) : AddModuleLater("env", InstanceModule(i))
    \/ Asking /\ \E a \in {ChainModule, ClashModule, TwoImportModule, MissingModule} :
                     \E allocs \in OkAllocSeqs(Len(a._memories)) :
                        ConstructModuleLater(a, allocs)
    \/ Asking /\ \E allocs \in OkAllocSeqs(Len(mod._memories)) : InstantiateLater(allocs)
    \/ \E module \in LookupModules, import \in LookupImports : FindFunc(module, import)
    \/ \E module \in LookupModules, import \in LookupImports : FindMemory(module, import)
    \/ \E instance \in 1..Len(instances), import \in LookupImports :
          FindExport(instance, import)

SpecLookup == InitLink /\ [][NextLookup]_vars

(***************************************************************************)
(* C26.  An instance's find_func / find_memory returns an object only for  *)
(* an import whose name is the name of one of the instance's exports, the  *)
(* object is the one at that export's index in the instance's function or  *)
(* memory table, and the outcome does not depend on the import's module    *)
(* field.                                                                  *)
(***************************************************************************)
\* the exports of inst named as the import, in list order
Named(inst, import) ==
    {e \in 1..Len(inst._exports) : inst._exports[e].name = import.name}

\* the import with another module field
Renamed(import, mn) == Import(mn, import.name, import.type, import.idx)

SameOutcome(r1, r2) == r1.st = r2.st /\ r1.val = r2.val

C26_InstanceLookupByName ==
    \A k \in 1..Len(instances) : \A import \in LookupImports :
        LET inst == instances[k]
            f == ModuleInstance_find_func(inst, import)
            m == ModuleInstance_find_memory(inst, import)
        IN /\ (f.st = "ok" /\ f.val # 0) =>
                \E e \in Named(inst, import) :
                    /\ inst._exports[e].type = "Func"
                    /\ f.val = inst._funcs[inst._exports[e].idx + 1]
           /\ (m.st = "ok" /\ m.val # 0) =>
                \E e \in Named(inst, import) :
                    /\ inst._exports[e].type = "Memory"
                    /\ m.val = inst._memories[inst._exports[e].idx + 1]
           /\ \A e \in Named(inst, import) :
                (\A d \in Named(inst, import) : e <= d) =>
                    /\ inst._exports[e].type = "Func" =>
                         f = Found(inst._funcs[inst._exports[e].idx + 1])
                    /\ inst._exports[e].type = "Memory" =>
                         m = Found(inst._memories[inst._exports[e].idx + 1])
           /\ \A mn \in {"env", "other", "mod"} :
                /\ SameOutcome(ModuleInstance_find_func(inst, Renamed(import, mn)), f)
                /\ SameOutcome(ModuleInstance_find_memory(inst, Renamed(import, mn)), m)

\* a query for "f" answered with the linked function the first instance
\* owns at index 1, whose unlinked function is the module's
C26_Witness ==
    /\ ret.op = "find_func"
    /\ ret.st = "ok"
    /\ Len(instances) = 1
    /\ Len(instances[1]._funcs) = 2
    /\ ret.found = instances[1]._funcs[2]
    /\ \E o \in 1..Len(instances[1]._owned_funcs) : instances[1]._owned_funcs[o] = ret.found
    /\ linked_heap[ret.found]._module = 1
    /\ linked_heap[ret.found]._unlinked = mod._funcs[2]
    /\ ret.found # instances[1]._funcs[1]

(***************************************************************************)
(* C27.  An instance's find_func / find_memory raises a LinkError carrying *)
(* the queried import when the import's name is that of an export of       *)
(* another kind, and returns null when no export has the name; when the    *)
(* import environment's module is an instance, instantiate reports an      *)
(* import answered with null as a "not found" LinkError.                   *)
(***************************************************************************)
\* the kind of the export of inst that answers the import, "" for none
NamedKind(inst, import) ==
    IF Named(inst, import) = {} THEN ""
    ELSE inst._exports[CHOOSE e \in Named(inst, import) :
                          \A d \in Named(inst, import) : e <= d].type

LookupErrors ==
    \A k \in 1..Len(instances) : \A import \in LookupImports :
        LET inst == instances[k]
            f == ModuleInstance_find_func(inst, import)
            m == ModuleInstance_find_memory(inst, import)
        IN /\ NamedKind(inst, import) = "" => f = Found(0) /\ m = Found(0)
           /\ NamedKind(inst, import) \notin {"", "Func"} =>
                f.st = "LinkError" /\ f.import = import
           /\ NamedKind(inst, import) \notin {"", "Memory"} =>
                m.st = "LinkError" /\ m.import = import

C27_WrongKindRaisesNothingIsNull ==
    [][ /\ instances' # instances => LookupErrors'
        /\ ( /\ link_ret' # link_ret
             /\ link_ret'.op = "instantiate"
             /\ "env" \in DOMAIN ienv
             /\ ienv["env"].kind = "instance" ) =>
           \A j \in 1..Len(link_ret'.lookups) :
              LET i == link_ret'.lookups[j]
                  kind == NamedKind(instances[ienv["env"].instance], i)
              IN /\ kind = "" =>
                      /\ link_ret'.st = "LinkError"
                      /\ link_ret'.what = "not found"
                      /\ link_ret'.import = i
                      /\ link_ret'.at = j
                 /\ kind \notin {"", i.type} =>
                      /\ link_ret'.st = "LinkError"
                      /\ link_ret'.what = "has wrong type"
                      /\ link_ret'.import = i
                      /\ link_ret'.at = j ]_vars

\* instantiate against an instance that exports no "x" reported "not found",
\* and a query of that instance for the memory "f", which it exports as a
\* function, raised a LinkError with the query
C27_Witness ==
    /\ link_ret.op = "instantiate"
    /\ link_ret.st = "LinkError"
    /\ link_ret.what = "not found"
    /\ link_ret.import = Import("env", "x", "Func", 0)
    /\ "env" \in DOMAIN ienv
    /\ ienv["env"] = InstanceModule(1)
    /\ NamedKind(instances[1], Import("env", "f", "Memory", 0)) = "Func"
    /\ ret.op = "find_memory"
    /\ ret.st = "LinkError"
    /\ ret.found = 0
    /\ ret.import = Import("env", "f", "Memory", 0)

(***************************************************************************)
(* C28.  find_export(import) returns an export of the instance with the    *)
(* import's name and the import's export type, and nullptr when the        *)
(* instance has no export with both.                                       *)
(***************************************************************************)
\* the exports of inst that correspond to the import in name and type
Corresponding(inst, import) ==
    {e \in Named(inst, import) : inst._exports[e].type = import.type}

C28_FindExportByNameAndKind ==
    \A k \in 1..Len(instances) : \A import \in LookupImports :
        LET e == find_export(instances[k], import) IN
        /\ e # 0 => e \in Corresponding(instances[k], import)
        /\ Corresponding(instances[k], import) = {} => e = 0

(***************************************************************************)
(* C29.  An ImportMultiModule answers find_func / find_memory with the     *)
(* export of the first module in its list that has a valid export for the  *)
(* import, whatever the modules before it contain, and with nullptr when   *)
(* no module of the list has one.                                          *)
(***************************************************************************)
\* the valid export a single module has for the import, 0 for none
ValidFunc(module, import) ==
    LET r == ImportModule_find_func(module, import) IN
    IF r.st = "ok" THEN r.val ELSE 0
ValidMemory(module, import) ==
    LET r == ImportModule_find_memory(module, import) IN
    IF r.st = "ok" THEN r.val ELSE 0

\* the first non-null entry of a list of objects, 0 when every entry is null
RECURSIVE FirstValid(_)
FirstValid(objs) ==
    IF objs = <<>> THEN 0
    ELSE IF Head(objs) # 0 THEN Head(objs)
    ELSE FirstValid(Tail(objs))

C29_MultiModuleFirstHit ==
    \A a \in SingleModules, b \in SingleModules : \A import \in LookupImports :
        /\ ImportModule_find_func(ImportMultiModule(<<a, b>>), import)
              = Found(FirstValid(<<ValidFunc(a, import), ValidFunc(b, import)>>))
        /\ ImportModule_find_memory(ImportMultiModule(<<a, b>>), import)
              = Found(FirstValid(<<ValidMemory(a, import), ValidMemory(b, import)>>))

(***************************************************************************)
(* C30.  A Module built from a decoded module has, for every function     *)
(* slot, exactly one of _funcs and _import_func_sigs non-null: an imported *)
(* slot has no function and the canonical signature of the import, a       *)
(* defined slot has an UnlinkedFunc with the descriptor's debug name,      *)
(* instructions and canonical signature and no import signature; a memory  *)
(* slot has a pre-allocated memory exactly when it is defined and shared;  *)
(* and the import and export lists are the decoded module's.               *)
(***************************************************************************)
\* the reference the type table gives out for a signature, 0 if it has none
CanonicalSig(s) ==
    LET it == FindSigIn(Types, s.return_types, s.param_types)
    IN IF it = 0 THEN 0 ELSE _sigs[it]

PartiallyInstantiated(module, abstract) ==
    /\ module._imports = abstract._imports
    /\ module._exports = abstract._exports
    /\ module._memories = abstract._memories
    /\ Len(module._funcs) = Len(abstract._funcs)
    /\ Len(module._import_func_sigs) = Len(abstract._funcs)
    /\ Len(module._shared_memories) = Len(abstract._memories)
    /\ \A i \in 1..Len(abstract._funcs) :
         /\ (module._funcs[i] # 0) # (module._import_func_sigs[i] # 0)
         /\ CanonicalSig(abstract._funcs[i].sig) # 0
         /\ abstract._funcs[i].is_import =>
              /\ module._funcs[i] = 0
              /\ module._import_func_sigs[i] = CanonicalSig(abstract._funcs[i].sig)
         /\ ~abstract._funcs[i].is_import =>
              /\ module._import_func_sigs[i] = 0
              /\ module._funcs[i] \in 1..Len(unlinked_heap)
              /\ unlinked_heap[module._funcs[i]]
                    = UnlinkedFunc(CanonicalSig(abstract._funcs[i].sig),
                                   abstract._funcs[i].debug_name,
                                   abstract._funcs[i].instrs)
    /\ \A k \in 1..Len(abstract._memories) :
         /\ (module._shared_memories[k] # 0)
               <=> (abstract._memories[k].is_shared /\ ~abstract._memories[k].is_import)
         /\ module._shared_memories[k] # 0 =>
              /\ module._shared_memories[k] \in 1..Len(mem_heap)
              /\ is_shared(mem_heap[module._shared_memories[k]])

C30_ModuleTables ==
    mod.built => \E abstract \in ExportingModules : PartiallyInstantiated(mod, abstract)

\* the Module of a decoded module with an imported and a defined function of
\* one signature, an unshared and a shared memory
C30_Witness ==
    /\ mod.built
    /\ PartiallyInstantiated(mod, ChainModule)
    /\ mod._funcs[1] = 0
    /\ mod._funcs[2] # 0
    /\ mod._import_func_sigs[1] = unlinked_heap[mod._funcs[2]].sig
    /\ mod._import_func_sigs[2] = 0
    /\ mod._shared_memories[1] = 0
    /\ mod._shared_memories[2] # 0
    /\ instances = <<>>

(***************************************************************************)
(* SpecReject: a host that links modules whose import lists are malformed  *)
(* (an index outside the table, an index used twice, an index of a slot    *)
(* the module defines, a Table or Global import) next to well-formed ones, *)
(* against memories that miss the import's limits in several ways.         *)
(***************************************************************************)
RejectModules ==
    { \* an index outside the function table, outside the memory table
      AbstractModule(<<ImportF1>>, <<>>, <<>>, <<AbstractFunc_for_import(DeclaredSig)>>),
      AbstractModule(<<Import("env", "m", "Memory", 1)>>, <<>>,
                     <<AbstractMemory_for_import(FALSE, 1, MaxPages)>>, <<>>),
      \* two imports of one index
      AbstractModule(<<ImportF, ImportF>>, <<>>, <<>>,
                     <<AbstractFunc_for_import(DeclaredSig)>>),
      AbstractModule(<<ImportM, ImportM>>, <<>>,
                     <<AbstractMemory_for_import(FALSE, 1, MaxPages)>>, <<>>),
      \* a Table import after a function import, a Global import before one
      AbstractModule(<<ImportF, Import("env", "t", "Table", 0)>>, <<>>, <<>>,
                     <<AbstractFunc_for_import(DeclaredSig)>>),
      AbstractModule(<<Import("env", "g", "Global", 0), ImportF>>, <<>>, <<>>,
                     <<AbstractFunc_for_import(DeclaredSig)>>),
      \* an import of the index of a function, of a memory the module defines
      AbstractModule(<<ImportF>>, <<>>, <<>>, <<AbstractFunc(FALSE, "d", 1, DeclaredSig)>>),
      AbstractModule(<<ImportM>>, <<>>, <<AbstractMemory(FALSE, FALSE, 1, MaxPages)>>, <<>>),
      AbstractModule(<<ImportM>>, <<>>, <<AbstractMemory(FALSE, TRUE, 1, MaxPages)>>, <<>>),
      \* well-formed: an unshared and a shared memory import, and imports
      \* next to definitions
      AbstractModule(<<ImportM>>, <<>>,
                     <<AbstractMemory_for_import(FALSE, 1, MaxPages)>>, <<>>),
      AbstractModule(<<ImportM>>, <<>>,
                     <<AbstractMemory_for_import(TRUE, 1, MaxPages)>>, <<>>),
      AbstractModule(<<ImportF, Import("env", "m", "Memory", 1)>>, <<>>,
                     <<AbstractMemory(FALSE, FALSE, 1, MaxPages),
                       AbstractMemory_for_import(FALSE, 1, MaxPages)>>,
                     <<AbstractFunc_for_import(DeclaredSig),
                       AbstractFunc(FALSE, "d", 1, DeclaredSig)>>) }

NextReject ==
    \/ CreateMock(DeclaredSig.return_types, DeclaredSig.param_types)
    \/ \E d \in { AbstractMemory(FALSE, FALSE, 1, MaxPages),
                  AbstractMemory(FALSE, FALSE, 0, MaxPages + 1),
                  AbstractMemory(FALSE, FALSE, 1, MaxPages + 1),
                  AbstractMemory(FALSE, TRUE, 1, MaxPages),
                  AbstractMemory(FALSE, TRUE, 0, MaxPages + 1) } :
          \E alloc \in {a \in AllocInputs : a.ok /\ ~a.moved} : CreateMemory(d, alloc)
    \/ \E fm \in FuncMaps, mm \in MemoryMaps : AddModule("env", MockImportModule(fm, mm))
    \/ \E a \in RejectModules : \E allocs \in OkAllocSeqs(Len(a._memories)) :
          ConstructModule(a, allocs)
    \/ \E allocs \in OkAllocSeqs(Len(mod._memories)) : Instantiate(allocs)

SpecReject == InitLink /\ [][NextReject]_vars

(***************************************************************************)
(* SpecBuild: a host that builds its Module piece by piece, Module() and   *)
(* then add_imported_func, add_func, add_memory, add_import and add_export *)
(* in any order (also on top of a Module made from an AbstractModule), and *)
(* then instantiates it.                                                   *)
(***************************************************************************)
\* how many entries the tables of a Module hold
Slots(module) ==
    Len(module._imports) + Len(module._exports) + Len(module._memories)
        + Len(module._funcs)

\* Module module;
ModuleDefault ==
    /\ Running
    /\ ~mod.built
    /\ mod' = [NoModule EXCEPT !.built = TRUE]
    /\ UNCHANGED <<unlinked_heap, linked_heap, mem_heap, ienv, instances, link_ret, cursor>>
    /\ UNCHANGED type_vars
    /\ UNCHANGED mem_vars

\* Module::add_import(i)
AddImport(i) ==
    /\ Running
    /\ mod.built
    /\ Slots(mod) < MaxSlots
    /\ mod' = [mod EXCEPT !._imports = Append(@, i)]
    /\ UNCHANGED <<unlinked_heap, linked_heap, mem_heap, ienv, instances, link_ret, cursor>>
    /\ UNCHANGED type_vars
    /\ UNCHANGED mem_vars

\* Module::add_export(e)
AddExport(e) ==
    /\ Running
    /\ mod.built
    /\ Slots(mod) < MaxSlots
    /\ mod' = [mod EXCEPT !._exports = Append(@, e)]
    /\ UNCHANGED <<unlinked_heap, linked_heap, mem_heap, ienv, instances, link_ret, cursor>>
    /\ UNCHANGED type_vars
    /\ UNCHANGED mem_vars

\* Module::add_memory(mem): a defined shared memory is created at once; a
\* std::bad_alloc or an abort out of new Memory(mem) leaves the Module as
\* it was
AddMemory(memory, alloc) ==
    /\ Running
    /\ mod.built
    /\ Slots(mod) < MaxSlots
    /\ IF memory.is_shared /\ ~memory.is_import
       THEN \E o \in {MemoryCtor(memory, alloc)} :
            /\ mem_heap' = (IF o.st = "ok" THEN Append(mem_heap, o.m) ELSE mem_heap)
            /\ mod' = (IF o.st = "ok"
                       THEN [mod EXCEPT !._shared_memories = Append(@, Len(mem_heap) + 1),
                                        !._memories = Append(@, memory)]
                       ELSE mod)
            /\ link_ret' = (IF o.st = "abort" THEN [op |-> "add_memory", st |-> "abort"]
                            ELSE link_ret)
       ELSE /\ mod' = [mod EXCEPT !._shared_memories = Append(@, 0),
                                  !._memories = Append(@, memory)]
            /\ UNCHANGED <<mem_heap, link_ret>>
    /\ UNCHANGED <<unlinked_heap, linked_heap, ienv, instances, cursor>>
    /\ UNCHANGED type_vars
    /\ UNCHANGED mem_vars

\* Module::add_func(UnlinkedFunc::instantiate(func, env)) for a function
\* that is not an import
AddFunc(func) ==
    /\ Running
    /\ mod.built
    /\ Slots(mod) < MaxSlots
    /\ \E u \in {UnlinkedFunc_instantiate(Types, func)} :
       /\ sig_heap' = u.T.heap
       /\ _sigs' = u.T.sigs
       /\ sig_calls' = u.T.calls
       /\ unlinked_heap' = Append(unlinked_heap, u.obj)
       /\ mod' = [mod EXCEPT !._import_func_sigs = Append(@, 0),
                             !._funcs = Append(@, Len(unlinked_heap) + 1)]
    /\ UNCHANGED <<linked_heap, mem_heap, ienv, instances, link_ret, cursor>>
    /\ UNCHANGED mem_vars

\* Module::add_imported_func(&env.types().sig(return_types, param_types))
AddImportedFunc(return_types, param_types) ==
    /\ Running
    /\ mod.built
    /\ Slots(mod) < MaxSlots
    /\ \E r \in {sig(Types, return_types, param_types)} :
       /\ sig_heap' = r.T.heap
       /\ _sigs' = r.T.sigs
       /\ sig_calls' = r.T.calls
       /\ mod' = [mod EXCEPT !._import_func_sigs = Append(@, r.ref),
                             !._funcs = Append(@, 0)]
    /\ UNCHANGED <<unlinked_heap, linked_heap, mem_heap, ienv, instances, link_ret, cursor>>
    /\ UNCHANGED mem_vars

NextBuild ==
    \/ CreateMock(DeclaredSig.return_types, DeclaredSig.param_types)
    \/ \E alloc \in {a \in AllocInputs : a.ok /\ ~a.moved} :
          CreateMemory(AbstractMemory(FALSE, FALSE, 1, MaxPages), alloc)
    \/ \E fm \in FuncMaps, mm \in MemoryMaps : AddModule("env", MockImportModule(fm, mm))
    \/ ModuleDefault
    \/ ConstructModule(AbstractModule(<<>>, <<>>, <<>>,
                                      <<AbstractFunc_for_import(DeclaredSig)>>), <<>>)
    \/ \E i \in { ImportF, ImportM, Import("env", "t", "Table", 0),
                  Import("env", "g", "Global", 0) } : AddImport(i)
    \/ AddExport(Export("late", "Memory", 0))
    \/ \E memory \in { AbstractMemory_for_import(FALSE, 1, MaxPages),
                       AbstractMemory(FALSE, FALSE, 1, MaxPages),
                       AbstractMemory(FALSE, TRUE, 1, MaxPages) } :
          \E alloc \in {a \in AllocInputs : ~a.moved} : AddMemory(memory, alloc)
    \/ AddFunc(AbstractFunc(FALSE, "d", 1, DeclaredSig))
    \/ AddImportedFunc(DeclaredSig.return_types, DeclaredSig.param_types)
    \/ \E allocs \in OkAllocSeqs(Len(mod._memories)) : Instantiate(allocs)

SpecBuild == InitLink /\ [][NextBuild]_vars

(***************************************************************************)
(* C31.  When an import's index lies outside the module's function or      *)
(* memory table, or was filled by an earlier import, instantiate returns   *)
(* no instance and throws no LinkError for that import: it aborts there,   *)
(* before the environment is asked for it (unless an earlier import ended  *)
(* the call first).                                                        *)
(***************************************************************************)
\* the size of the table an import goes to
TableSize(import) ==
    IF import.type = "Func" THEN Len(mod._funcs) ELSE Len(mod._memories)

\* the imports of mod with an index outside the table or used before
IndexFaults ==
    {k \in 1..Len(mod._imports) :
        /\ mod._imports[k].type \in {"Func", "Memory"}
        /\ \/ mod._imports[k].idx >= TableSize(mod._imports[k])
           \/ \E j \in 1..(k - 1) :
                 /\ mod._imports[j].type = mod._imports[k].type
                 /\ mod._imports[j].idx = mod._imports[k].idx}

C31_BadIndexAborts ==
    link_ret.op = "instantiate" =>
        \A k \in IndexFaults :
            /\ link_ret.instance = 0
            /\ link_ret.st \in {"LinkError", "abort"}
            /\ link_ret.at \in 1..k
            /\ link_ret.st = "LinkError" => link_ret.at < k
            /\ link_ret.at = k =>
                  /\ link_ret.st = "abort"
                  /\ link_ret.lookups = SubSeq(mod._imports, 1, k - 1)

\* the second import of an index aborted after the first one was looked up
\* and bound
C31_Witness ==
    /\ link_ret.op = "instantiate"
    /\ link_ret.st = "abort"
    /\ link_ret.at = 2
    /\ 2 \in IndexFaults
    /\ link_ret.what = "Multiple imports to same index"
    /\ link_ret.lookups = <<mod._imports[1]>>
    /\ instances = <<>>

(***************************************************************************)
(* C32.  An import of kind Table or Global makes instantiate abort when    *)
(* the loop over the imports reaches it: the call returns no instance,     *)
(* does not pass over the import, and throws no LinkError for it.          *)
(***************************************************************************)
\* the imports of mod that are neither functions nor memories
UnhandledImports ==
    {k \in 1..Len(mod._imports) : mod._imports[k].type \in {"Table", "Global"}}

C32_TableGlobalImportAborts ==
    link_ret.op = "instantiate" =>
        \A k \in UnhandledImports :
            /\ link_ret.instance = 0
            /\ link_ret.st \in {"LinkError", "abort"}
            /\ link_ret.at \in 1..k
            /\ link_ret.st = "LinkError" => link_ret.at < k
            /\ link_ret.at = k =>
                  /\ link_ret.st = "abort"
                  /\ link_ret.what = "Unknown import type"
                  /\ link_ret.lookups = SubSeq(mod._imports, 1, k - 1)

\* a Global import declared second aborted after the function import before
\* it was bound
C32_Witness ==
    /\ link_ret.op = "instantiate"
    /\ link_ret.st = "abort"
    /\ link_ret.what = "Unknown import type"
    /\ link_ret.at = 2
    /\ mod._imports[2] = Import("env", "g", "Global", 0)
    /\ link_ret.lookups = <<ImportF>>
    /\ instances = <<>>

(***************************************************************************)
(* SpecAssign: a host that interns signatures and asks whether a value of  *)
(* one type may be assigned to a variable of another.                      *)
(***************************************************************************)
\* the comparison of tags alone
is_assignable_to_ignoring_sig(dest, src) ==
    IF dest.type \in {"I32", "I64", "F32", "F64", "FuncRef"}
    THEN [st |-> "ret", val |-> src.type = dest.type]
    ELSE [st |-> "abort", val |-> FALSE]

\* ValueType::is_assignable_to(dest, src): [st, val], st "abort" for the
\* WASSERT behind the switch
is_assignable_to(dest, src) ==
    CASE dest.type = "I32" -> [st |-> "ret", val |-> src.type = "I32"]
      [] dest.type = "I64" -> [st |-> "ret", val |-> src.type = "I64"]
      [] dest.type = "F32" -> [st |-> "ret", val |-> src.type = "F32"]
      [] dest.type = "F64" -> [st |-> "ret", val |-> src.type = "F64"]
      [] dest.type = "FuncRef" ->
            IF src.type # "FuncRef" THEN [st |-> "ret", val |-> FALSE]
            ELSE LET dest_sig == dest.extra
                     src_sig == src.extra
                 IN [st |-> "ret", val |-> (dest_sig = 0 \/ src_sig = dest_sig)]
      [] OTHER -> [st |-> "abort", val |-> FALSE]

\* ValueType::is_assignable_to(dest, src) called by the host
IsAssignableTo(dest, src) ==
    /\ ret.st # "abort"
    /\ \E o \in {is_assignable_to(dest, src)} :
         ret' = [op |-> "is_assignable_to", st |-> o.st, val |-> o.val,
                 dest |-> dest, src |-> src]
    /\ UNCHANGED <<mstatus, mem, stored>>
    /\ UNCHANGED type_vars
    /\ UNCHANGED link_vars

\* the types asked about: the four numeric types, the untyped funcref, a
\* funcref of each interned signature, and a tag outside the enumeration
NextAssign ==
    \/ ret.st # "abort" /\ \E p \in {<<>>, <<i32>>} : Sig(<<>>, p)
    \/ \E dest, src \in
            {[type |-> t, extra |-> 0] : t \in PrimitiveValueType \cup {"0x00"}}
               \cup {func_ref(s) : s \in 1..Len(sig_heap)} :
          IsAssignableTo(dest, src)

SpecAssign == InitTypes /\ [][NextAssign]_vars

(***************************************************************************)
(* C33.  is_assignable_to(dest, src) is true exactly when dest and src     *)
(* have the same primitive tag and, for funcref, dest is untyped or src    *)
(* has the very signature of dest.  So every type is assignable to itself, *)
(* and a typed funcref goes into an untyped one but not the reverse.       *)
(***************************************************************************)
C33_AssignableTo ==
    (ret.op = "is_assignable_to" /\ ret.dest.type \in PrimitiveValueType) =>
        /\ ret.st = "ret"
        /\ ret.val <=>
              /\ ret.dest.type = ret.src.type
              /\ ret.dest.type = "FuncRef" =>
                    (ret.dest.extra = 0 \/ ret.src.extra = ret.dest.extra)
        /\ ret.dest = ret.src => ret.val
        /\ ( /\ ret.dest.type = "FuncRef" /\ ret.src.type = "FuncRef"
             /\ ret.dest.extra = 0 ) => ret.val
        /\ ( /\ ret.dest.type = "FuncRef" /\ ret.src.type = "FuncRef"
             /\ ret.dest.extra # 0 /\ ret.src.extra = 0 ) => ~ret.val

\* a funcref of the second signature interned was refused for a variable
\* typed with the first
C33_Witness ==
    /\ ret.op = "is_assignable_to"
    /\ ret.st = "ret"
    /\ ~ret.val
    /\ Len(sig_heap) = 2
    /\ ret.dest = func_ref(1)
    /\ ret.src = func_ref(2)

(***************************************************************************)
(* SpecCursor: func.hpp, an InstructionCursor over an InstructionStream.   *)
(* A pointer into the stream is its distance from _stream.data().          *)
(***************************************************************************)
\* InstructionCursor::offset()
offset(c) == c._cursor

\* InstructionCursor(stream, off)
CursorCtor(stream, off) ==
    /\ ret.st # "abort"
    /\ ~cursor.built
    /\ IF off <= Len(stream)
       THEN /\ cursor' = [built |-> TRUE, _stream |-> stream, _cursor |-> off]
            /\ ret' = [op |-> "InstructionCursor", st |-> "ret", val |-> 0, arg |-> off]
       ELSE /\ cursor' = [built |-> FALSE, _stream |-> stream, _cursor |-> 0]
            /\ ret' = [op |-> "InstructionCursor", st |-> "abort", val |-> 0, arg |-> off]
    /\ UNCHANGED <<mstatus, mem, stored>>
    /\ UNCHANGED <<unlinked_heap, linked_heap, mem_heap, mod, ienv, instances, link_ret>>
    /\ UNCHANGED type_vars

\* jump_relative(off) that moves the cursor without the assertions
JumpRelativeUnchecked(off) ==
    /\ ret.st # "abort"
    /\ cursor.built
    /\ cursor' = [cursor EXCEPT !._cursor = @ + off]
    /\ ret' = [op |-> "jump_relative", st |-> "ret", val |-> 0, arg |-> off]
    /\ UNCHANGED <<mstatus, mem, stored>>
    /\ UNCHANGED <<unlinked_heap, linked_heap, mem_heap, mod, ienv, instances, link_ret>>
    /\ UNCHANGED type_vars

\* InstructionCursor::jump_relative(off): begin() - _cursor is -_cursor,
\* end() - _cursor is size() - _cursor
JumpRelative(off) ==
    /\ ret.st # "abort"
    /\ cursor.built
    /\ IF off >= 0 - cursor._cursor /\ off <= Len(cursor._stream) - cursor._cursor
       THEN /\ cursor' = [cursor EXCEPT !._cursor = @ + off]
            /\ ret' = [op |-> "jump_relative", st |-> "ret", val |-> 0, arg |-> off]
       ELSE /\ cursor' = cursor
            /\ ret' = [op |-> "jump_relative", st |-> "abort", val |-> 0, arg |-> off]
    /\ UNCHANGED <<mstatus, mem, stored>>
    /\ UNCHANGED <<unlinked_heap, linked_heap, mem_heap, mod, ienv, instances, link_ret>>
    /\ UNCHANGED type_vars

\* InstructionCursor::read_u8()
ReadU8 ==
    /\ ret.st # "abort"
    /\ cursor.built
    /\ IF cursor._cursor # Len(cursor._stream)
       THEN /\ ret' = [op |-> "read_u8", st |-> "ret",
                       val |-> cursor._stream[cursor._cursor + 1], arg |-> 0]
            /\ cursor' = [cursor EXCEPT !._cursor = @ + 1]
       ELSE /\ cursor' = cursor
            /\ ret' = [op |-> "read_u8", st |-> "abort", val |-> 0, arg |-> 0]
    /\ UNCHANGED <<mstatus, mem, stored>>
    /\ UNCHANGED <<unlinked_heap, linked_heap, mem_heap, mod, ienv, instances, link_ret>>
    /\ UNCHANGED type_vars

\* streams of up to MaxStream bytes; offsets and jumps up to one past that
NextCursor ==
    \/ \E n \in 0..MaxStream : \E stream \in [1..n -> {0, 255}] :
          \E off \in 0..(MaxStream + 1) : CursorCtor(stream, off)
    \/ \E off \in (0 - MaxStream - 1)..(MaxStream + 1) : JumpRelative(off)
    \/ ReadU8

SpecCursor == InitLink /\ [][NextCursor]_vars

(***************************************************************************)
(* C34.  A cursor over a stream of n bytes that has not aborted has an     *)
(* offset in 0..n.  Construction with an offset above n, a jump whose      *)
(* target is outside 0..n and a read at offset n abort; another jump moves *)
(* the offset by its argument, another read returns the byte at the offset *)
(* and adds 1 to it; no call changes the stream.                           *)
(***************************************************************************)
C34_CursorWithinStream ==
    [][ LET n == Len(cursor'._stream) IN
        /\ cursor'.built => offset(cursor') \in 0..n
        /\ cursor.built => cursor'._stream = cursor._stream
        /\ (ret' # ret /\ ret'.op = "InstructionCursor") =>
              IF ret'.arg > n
              THEN ret'.st = "abort" /\ ~cursor'.built
              ELSE ret'.st = "ret" /\ cursor'.built /\ offset(cursor') = ret'.arg
        /\ (ret' # ret /\ ret'.op = "jump_relative") =>
              IF offset(cursor) + ret'.arg \in 0..n
              THEN ret'.st = "ret" /\ offset(cursor') = offset(cursor) + ret'.arg
              ELSE ret'.st = "abort"
        /\ (ret' # ret /\ ret'.op = "read_u8") =>
              IF offset(cursor) = n
              THEN ret'.st = "abort"
              ELSE /\ ret'.st = "ret"
                   /\ ret'.val = cursor._stream[offset(cursor) + 1]
                   /\ offset(cursor') = offset(cursor) + 1 ]_vars

\* the last byte of a three-byte stream was read after a jump back from the
\* end, leaving the cursor at the end
C34_Witness ==
    /\ cursor.built
    /\ cursor._stream = <<0, 0, 255>>
    /\ offset(cursor) = 3
    /\ ret.op = "read_u8"
    /\ ret.st = "ret"
    /\ ret.val = 255

(***************************************************************************)
(* C35.  A LinkError for a memory import names the first check that fails, *)
(* in the order: not found, shared flag, initial size, maximum capacity.   *)
(* A later check is named only when all earlier ones pass, and an import   *)
(* that was bound passes all four.                                         *)
(***************************************************************************)
\* the memory the environment offers for an import (0: none)
Offered(import) == find_memory(ienv, import).val

\* the three comparisons of an offered memory with the import's descriptor
FlagMismatch(import) ==
    is_shared(mem_heap[Offered(import)]) # mod._memories[import.idx + 1].is_shared
TooSmall(import) ==
    initial_size_pages(mem_heap[Offered(import)]) < mod._memories[import.idx + 1].initial_pages
TooLarge(import) ==
    max_capacity_pages(mem_heap[Offered(import)]) > mod._memories[import.idx + 1].max_pages

FlagErrors == {"was shared, but was imported as unshared",
               "was unshared, but was imported as shared"}
SizeErrors == {"is smaller than the import's minimum size"}
MaxErrors == {"has a larger max size", "has a larger max size (unlimited)"}

C35_FirstFailingMemoryCheck ==
    /\ (link_ret.op = "instantiate" /\ link_ret.st = "LinkError"
        /\ link_ret.import.type = "Memory") =>
          LET i == link_ret.import IN
          /\ link_ret.what \in {"not found"} \cup FlagErrors \cup SizeErrors \cup MaxErrors
          /\ link_ret.what = "not found" <=> Offered(i) = 0
          /\ link_ret.what \in FlagErrors =>
                /\ FlagMismatch(i)
                /\ link_ret.what = "was shared, but was imported as unshared"
                      <=> is_shared(mem_heap[Offered(i)])
          /\ link_ret.what \in SizeErrors => ~FlagMismatch(i) /\ TooSmall(i)
          /\ link_ret.what \in MaxErrors =>
                ~FlagMismatch(i) /\ ~TooSmall(i) /\ TooLarge(i)
    /\ (link_ret.op = "instantiate" /\ link_ret.st = "ok") =>
          \A k \in 1..Len(mod._imports) :
             mod._imports[k].type = "Memory" =>
                /\ Offered(mod._imports[k]) # 0
                /\ ~FlagMismatch(mod._imports[k])
                /\ ~TooSmall(mod._imports[k])
                /\ ~TooLarge(mod._imports[k])

\* a shared memory that is also too small and too large for an unshared
\* import was refused for its flag
C35_Witness ==
    /\ link_ret.op = "instantiate"
    /\ link_ret.st = "LinkError"
    /\ link_ret.import = ImportM
    /\ link_ret.what = "was shared, but was imported as unshared"
    /\ TooSmall(ImportM)
    /\ TooLarge(ImportM)

(***************************************************************************)
(* C38.  When an import of mod names a function slot or a memory slot that *)
(* mod defines itself, instantiate returns no instance: it ends in a       *)
(* LinkError or aborts.  In an instance that is returned, the slots the    *)
(* imports name are exactly the slots mod does not define; each of them    *)
(* holds the object the environment offers for its import, and each        *)
(* defined slot holds an object of the instance or of the module.          *)
(***************************************************************************)
\* the imports of mod that name a slot mod defines
DefinedSlotImports ==
    {k \in 1..Len(mod._imports) :
        LET i == mod._imports[k] IN
        \/ i.type = "Func" /\ i.idx < Len(mod._funcs) /\ mod._funcs[i.idx + 1] # 0
        \/ /\ i.type = "Memory"
           /\ i.idx < Len(mod._memories)
           /\ ~mod._memories[i.idx + 1].is_import}

\* the slots of a table the imports of a kind name
ImportedSlots(type) ==
    {mod._imports[k].idx + 1 : k \in {j \in 1..Len(mod._imports) : mod._imports[j].type = type}}

C38_NoImportIntoDefinedSlot ==
    link_ret.op = "instantiate" =>
        /\ DefinedSlotImports # {} =>
              link_ret.instance = 0 /\ link_ret.st \in {"LinkError", "abort"}
        /\ link_ret.st = "ok" =>
              LET self == link_ret.instance
                  inst == instances[self]
              IN /\ ImportedSlots("Func") = {j \in 1..Len(mod._funcs) : mod._funcs[j] = 0}
                 /\ ImportedSlots("Memory") =
                       {j \in 1..Len(mod._memories) : mod._memories[j].is_import}
                 /\ \A k \in 1..Len(mod._imports) :
                       LET i == mod._imports[k] IN
                       /\ i.type = "Func" =>
                             /\ inst._funcs[i.idx + 1] = find_func(ienv, i).val
                             /\ linked_heap[inst._funcs[i.idx + 1]]._module # self
                       /\ i.type = "Memory" => inst._memories[i.idx + 1] = Offered(i)
                 /\ \A j \in 1..Len(mod._funcs) :
                       mod._funcs[j] # 0 =>
                          /\ linked_heap[inst._funcs[j]]._module = self
                          /\ linked_heap[inst._funcs[j]]._unlinked = mod._funcs[j]
                 /\ \A j \in 1..Len(mod._memories) :
                       ~mod._memories[j].is_import =>
                          IF mod._memories[j].is_shared
                          THEN inst._memories[j] = mod._shared_memories[j]
                          ELSE \A k \in 1..Len(mod._imports) :
                                  mod._imports[k].type = "Memory" =>
                                     inst._memories[j] # Offered(mod._imports[k])

\* a memory fit for the import was looked up for the slot of a memory the
\* module defines, and the call aborted behind the import loop
C38_Witness ==
    /\ link_ret.op = "instantiate"
    /\ link_ret.st = "abort"
    /\ link_ret.at = 0
    /\ DefinedSlotImports = {1}
    /\ link_ret.lookups = <<ImportM>>
    /\ Offered(ImportM) # 0
    /\ instances = <<>>

(***************************************************************************)
(* SpecChain: a host that instantiates modules against instances: modules  *)
(* that export the function they import, a function they define, and a     *)
(* module that imports the name with another signature.                    *)
(***************************************************************************)
\* a module that exports under the name f the function it imports as env.f
ReexportModule ==
    AbstractModule(<<ImportF>>, <<Export("f", "Func", 0)>>, <<>>,
                   <<AbstractFunc_for_import(DeclaredSig)>>)

NextChain ==
    \/ CreateMock(DeclaredSig.return_types, DeclaredSig.param_types)
    \/ \E fm \in FuncMaps : AddModule("env", MockImportModule(fm, [n \in {} |-> 0]))
    \/ \E a \in {ReexportModule, ChainModule} :
          \E allocs \in OkAllocSeqs(Len(a._memories)) : ConstructModule(a, allocs)
    \/ \E allocs \in OkAllocSeqs(Len(mod._memories)) : Instantiate(allocs)
    \/ \E i \in 1..Len(instances) : AddModuleLater("env", InstanceModule(i))
    \/ \E a \in { ReexportModule, ChainModule,
                  AbstractModule(<<ImportF>>, <<>>, <<>>,
                                 <<AbstractFunc_for_import(FuncSig(<<>>, <<>>))>>) } :
          \E allocs \in OkAllocSeqs(Len(a._memories)) : ConstructModuleLater(a, allocs)
    \/ \E allocs \in OkAllocSeqs(Len(mod._memories)) : InstantiateLater(allocs)

SpecChain == InitLink /\ [][NextChain]_vars

(***************************************************************************)
(* C36.  When a module B is instantiated with an import (m, n, Func, k)    *)
(* and the environment maps m to an instance A that exports n as the       *)
(* function at index j, of the signature the import declares, then no      *)
(* LinkError is thrown for the import and in the instance returned         *)
(* B.funcs[k] is the linked function A.funcs[j] itself, whether A defines  *)
(* slot j or imported it; the function is as it was before the call, and   *)
(* its module is the instance that defined it (none for a host function),  *)
(* not B.                                                                  *)
(***************************************************************************)
\* the Func exports of an instance under a name
FuncExports(A, name) ==
    {e \in 1..Len(A._exports) : A._exports[e].name = name /\ A._exports[e].type = "Func"}

\* the instance that owns a linked function, 0 when none does
DefiningInstance(func) ==
    IF \E a \in 1..Len(instances) : \E o \in 1..Len(instances[a]._owned_funcs) :
          instances[a]._owned_funcs[o] = func
    THEN CHOOSE a \in 1..Len(instances) : \E o \in 1..Len(instances[a]._owned_funcs) :
            instances[a]._owned_funcs[o] = func
    ELSE 0

\* the imports of mod the environment answers from an instance that exports
\* the name as a function of the declared signature
ChainedImports ==
    {k \in 1..Len(mod._imports) :
        LET i == mod._imports[k] IN
        /\ i.type = "Func"
        /\ i.idx < Len(mod._funcs)
        /\ i.module \in DOMAIN ienv
        /\ ienv[i.module].kind = "instance"
        /\ \E e \in FuncExports(instances[ienv[i.module].instance], i.name) :
              LET A == instances[ienv[i.module].instance] IN
              signature(unlinked_heap, linked_heap, A._funcs[A._exports[e].idx + 1])
                 = mod._import_func_sigs[i.idx + 1]}

C36_InstancesChain ==
    [][ (link_ret' # link_ret /\ link_ret'.op = "instantiate") =>
          \A k \in ChainedImports :
             LET i == mod._imports[k]
                 A == instances[ienv[i.module].instance]
             IN /\ ~(link_ret'.st = "LinkError" /\ link_ret'.at = k)
                /\ link_ret'.st = "ok" =>
                      \A e \in FuncExports(A, i.name) :
                         LET B == instances'[link_ret'.instance]
                             func == A._funcs[A._exports[e].idx + 1]
                         IN /\ B._funcs[i.idx + 1] = func
                            /\ linked_heap'[func] = linked_heap[func]
                            /\ linked_heap'[func]._module # link_ret'.instance
                            /\ linked_heap'[func]._module = DefiningInstance(func) ]_vars

\* an instance that got from another instance the host function that one
\* had imported and exported
C36_Witness ==
    /\ link_ret.op = "instantiate"
    /\ link_ret.st = "ok"
    /\ link_ret.instance = 2
    /\ ienv["env"] = InstanceModule(1)
    /\ instances[2]._funcs[1] \in {instances[1]._funcs[j] : j \in 1..Len(instances[1]._funcs)}
    /\ instances[1]._exports[1] = Export("f", "Func", 0)
    /\ instances[2]._funcs[1] = instances[1]._funcs[1]
    /\ linked_heap[instances[2]._funcs[1]]._module = 0

(***************************************************************************)
(* SpecIsolate: a host that instantiates a module defining an unshared and *)
(* a shared memory more than once and stores to, grows and loads from the  *)
(* memories through the instances: instance->memories()[slot]->store(..).  *)
(***************************************************************************)
\* a module that defines an unshared memory (slot 0) and a shared one (slot 1)
TwoMemoryModule ==
    AbstractModule(<<>>, <<>>,
                   <<AbstractMemory(FALSE, FALSE, 1, MaxPages),
                     AbstractMemory(FALSE, TRUE, 1, MaxPages)>>, <<>>)

\* instances[i]->memories()[slot - 1]->store(buf, addr, Len(buf)) doing the
\* same to that slot of every other instance
InstanceStoreEverywhere(i, slot, buf, addr, fault) ==
    /\ link_ret.st # "abort"
    /\ ret.st \notin {"abort", "segv"}
    /\ \E o \in {store(mem_heap[instances[i]._memories[slot]], buf, addr, Len(buf), fault)} :
       /\ mem_heap' = [x \in 1..Len(mem_heap) |->
                          IF \E j \in 1..Len(instances) : instances[j]._memories[slot] = x
                          THEN store(mem_heap[x], buf, addr, Len(buf), fault).m
                          ELSE mem_heap[x]]
       /\ ret' = [op |-> "store", st |-> o.st, val |-> o.val, instance |-> i,
                  slot |-> slot, addr |-> addr, buf |-> buf]
    /\ UNCHANGED <<mstatus, mem, stored>>
    /\ UNCHANGED <<unlinked_heap, linked_heap, mod, ienv, instances, link_ret, cursor>>
    /\ UNCHANGED type_vars

\* instances[i]->memories()[slot - 1]->store(buf, addr, Len(buf))
InstanceStore(i, slot, buf, addr, fault) ==
    /\ link_ret.st # "abort"
    /\ ret.st \notin {"abort", "segv"}
    /\ \E o \in {store(mem_heap[instances[i]._memories[slot]], buf, addr, Len(buf), fault)} :
       /\ mem_heap' = [mem_heap EXCEPT ![instances[i]._memories[slot]] = o.m]
       /\ ret' = [op |-> "store", st |-> o.st, val |-> o.val, instance |-> i,
                  slot |-> slot, addr |-> addr, buf |-> buf]
    /\ UNCHANGED <<mstatus, mem, stored>>
    /\ UNCHANGED <<unlinked_heap, linked_heap, mod, ienv, instances, link_ret, cursor>>
    /\ UNCHANGED type_vars

\* instances[i]->memories()[slot - 1]->grow(new_pages)
InstanceGrow(i, slot, new_pages, alloc) ==
    /\ link_ret.st # "abort"
    /\ ret.st \notin {"abort", "segv"}
    /\ \E o \in {grow(mem_heap[instances[i]._memories[slot]], new_pages, alloc)} :
       /\ mem_heap' = [mem_heap EXCEPT ![instances[i]._memories[slot]] = o.m]
       /\ ret' = [op |-> "grow", st |-> o.st, val |-> o.val, instance |-> i,
                  slot |-> slot, addr |-> 0, buf |-> <<>>]
    /\ UNCHANGED <<mstatus, mem, stored>>
    /\ UNCHANGED <<unlinked_heap, linked_heap, mod, ienv, instances, link_ret, cursor>>
    /\ UNCHANGED type_vars

\* instances[i]->memories()[slot - 1]->load(buf, addr, sz) into a buffer
\* of sz zero bytes
InstanceLoad(i, slot, addr, sz, fault, junk) ==
    /\ link_ret.st # "abort"
    /\ ret.st \notin {"abort", "segv"}
    /\ \E o \in {load(mem_heap[instances[i]._memories[slot]], [b \in 1..sz |-> 0],
                      addr, sz, fault, junk)} :
       ret' = [op |-> "load", st |-> o.st, val |-> o.val, instance |-> i,
               slot |-> slot, addr |-> addr, buf |-> o.buf]
    /\ UNCHANGED <<mstatus, mem, stored>>
    /\ UNCHANGED link_vars
    /\ UNCHANGED type_vars

\* stores of one byte and grows by a page, at the first byte of each page
NextIsolate ==
    \/ \E allocs \in [1..2 -> {a \in AllocInputs : a.ok}] :
          ConstructModule(TwoMemoryModule, allocs)
    \/ \E allocs \in [1..Len(mod._memories) -> {a \in AllocInputs : a.ok}] :
          ret.st \notin {"abort", "segv"} /\ Instantiate(allocs)
    \/ \E allocs \in [1..Len(mod._memories) -> {a \in AllocInputs : a.ok}] :
          ret.st \notin {"abort", "segv"} /\ InstantiateLater(allocs)
    \/ \E i \in 1..Len(instances), slot \in 1..2, addr \in {0, WASM_PAGE_SIZE},
          fault \in BOOLEAN : InstanceStore(i, slot, <<7>>, addr, fault)
    \/ \E i \in 1..Len(instances), slot \in 1..2, new_pages \in {0, 1},
          alloc \in {a \in AllocInputs : ~a.moved} :
             InstanceGrow(i, slot, new_pages, alloc)
    \/ \E i \in 1..Len(instances), slot \in 1..2, addr \in {0, WASM_PAGE_SIZE} :
          InstanceLoad(i, slot, addr, 1, TRUE, <<1>>)

SpecIsolate == InitLink /\ [][NextIsolate]_vars

(***************************************************************************)
(* C37.  A store or a grow through one instance's memory at a defined      *)
(* unshared slot leaves the memory every other instance of the module has  *)
(* at that slot as it was: bytes, size and capacity.  An instance created  *)
(* later starts, at such a slot, with the descriptor's initial size and    *)
(* only zero bytes, whatever was stored or grown before.  At a defined     *)
(* shared slot, what a store through one instance wrote is what a load     *)
(* through every instance of the module reads.                             *)
(***************************************************************************)
\* the memory instance i has at a slot
Through(heap, i, slot) == heap[instances[i]._memories[slot]]

C37_UnsharedIsolatedSharedVisible ==
    [][ /\ (ret' # ret /\ ret'.op \in {"store", "grow"}
            /\ DefinedUnshared(mod._memories[ret'.slot])) =>
              \A i \in 1..Len(instances) :
                 i # ret'.instance =>
                    Through(mem_heap', i, ret'.slot) = Through(mem_heap, i, ret'.slot)
        /\ (ret' # ret /\ ret'.op = "store" /\ ret'.st = "ret" /\ ret'.val
            /\ DefinedShared(mod._memories[ret'.slot])) =>
              \A i \in 1..Len(instances) : \A fault \in BOOLEAN :
                 load(Through(mem_heap', i, ret'.slot), <<0>>, ret'.addr,
                      Len(ret'.buf), fault, <<1>>)
                    = [st |-> "ret", val |-> TRUE, buf |-> ret'.buf]
        /\ instances' # instances =>
              \A slot \in 1..Len(mod._memories) :
                 DefinedUnshared(mod._memories[slot]) =>
                    LET m == mem_heap'[instances'[Len(instances')]._memories[slot]]
                    IN /\ size_pages(m) = mod._memories[slot].initial_pages
                       /\ current_capacity_pages(m) = mod._memories[slot].max_pages
                       /\ m.region = ZeroRegion ]_vars

\* the first instance grew its unshared memory and wrote to both pages;
\* the second one, created after that, has one page of zero bytes, and
\* a store through it has just gone to the first page of its own memory
C37_Witness ==
    /\ Len(instances) = 2
    /\ size_pages(Through(mem_heap, 1, 1)) = 2
    /\ Byte(Through(mem_heap, 1, 1).region, WASM_PAGE_SIZE) = 7
    /\ Byte(Through(mem_heap, 1, 1).region, 0) = 0
    /\ ret.op = "store"
    /\ ret.instance = 2
    /\ ret.slot = 1
    /\ ret.val
    /\ size_pages(Through(mem_heap, 2, 1)) = 1
    /\ Byte(Through(mem_heap, 2, 1).region, 0) = 7

=============================================================================
